---------------------------- MODULE Spec2Model ----------------------------
(***************************************************************************)
(* Presence-and-messaging core of peregrinapp-backend:                     *)
(*   src/sockets/socketManager.js  (connection lifecycle, message delivery, *)
(*                                  presence broadcast)                     *)
(*   src/userService.js:260-395    (chatService: chat session tracker)      *)
(*   src/userService.js:396-802    (redisService: position store)           *)
(*                                                                         *)
(* One Node.js process, one event loop: a handler runs without             *)
(* interruption up to its next await.  Every action below is one such run. *)
(***************************************************************************)
EXTENDS Integers, Sequences, FiniteSets, TLC

(***************************************************************************)
(* Bounds of the model.                                                    *)
(***************************************************************************)
NumUsers == 2        \* user identities 1..NumUsers
MaxSockets == 3      \* transports opened during a run
MaxSends == 2        \* send_message events handled during a run
MaxSeen == 1         \* message_seen events handled during a run
MaxChatUsers == 4    \* user identities given to the chat-session tracker alone
MaxStoreSockets == 2 \* transports opened during a run with the store on
MaxFairSockets == 1  \* transports opened during a run checked for progress
MaxUpdates == 2      \* update_location events handled during a run
MaxStopUpdates == 1  \* update_location events handled in a run with stop requests
MaxReuseSockets == 2 \* connections made during a run with repeated message ids
MaxLatitude == 2     \* latitudes 1..MaxLatitude reported in a run of concurrent stores
MaxStops == 2        \* stop_location_sharing events handled during a run
MaxCalls == 2        \* store operations invoked during a run of the store module alone
MaxNotes == 2        \* notifications published during a run of the store module alone
MaxCoordinate == 1   \* latitudes 0..MaxCoordinate, longitudes 0..1
MaxTicks == 30       \* clock steps, of half a retry interval, that a run's messages span

(***************************************************************************)
(* Program constants.                                                      *)
(***************************************************************************)
RETRY_INTERVAL == 30000     \* socketManager.js:506  setTimeout(.., i * 30000)
SWEEP_INTERVAL == 30000     \* socketManager.js:710  setInterval(.., 30000)
retryCount == 10            \* socketManager.js:504
MESSAGE_EXPIRY == 300000    \* socketManager.js:458  Date.now() + (5 * 60 * 1000)
MAX_RECONNECT_ATTEMPTS == 10 \* userService.js:408

Tick == RETRY_INTERVAL \div 2
MaxTime == MaxTicks * Tick

Users == 1..NumUsers
SocketIds == 1..MaxSockets
NoSocket == 0
NoUser == 0
\* An absent (undefined) messageId; like undefined it is falsy at line 418.
NoId == 0
ClientMessageIds == 1..MaxSends
\* Ids made by `msg_${Date.now()}_${random}` (socketManager.js:418).
GeneratedMessageIds == (MaxSends + 1)..(2 * MaxSends)

(***************************************************************************)
(* JavaScript values of an event payload field: undefined, a number or a   *)
(* string (a sequence of characters).                                      *)
(***************************************************************************)
JsUndefined == [kind |-> "undefined", num |-> 0, str |-> <<>>]
JsNumber(n) == [kind |-> "number", num |-> n, str |-> <<>>]
JsString(s) == [kind |-> "string", num |-> 0, str |-> s]

\* !v for the values above: undefined, 0 and "" are falsy.
Falsy(v) ==
    \/ v.kind = "undefined"
    \/ v.kind = "number" /\ v.num = 0
    \/ v.kind = "string" /\ v.str = <<>>

Digits == {"0", "1", "2", "3", "4", "5", "6", "7", "8", "9"}
DigitValue(c) ==
    CASE c = "0" -> 0 [] c = "1" -> 1 [] c = "2" -> 2 [] c = "3" -> 3
      [] c = "4" -> 4 [] c = "5" -> 5 [] c = "6" -> 6 [] c = "7" -> 7
      [] c = "8" -> 8 [] c = "9" -> 9

\* The number read from the leading digits of s, given acc read so far.
RECURSIVE ParseDigits(_, _)
ParseDigits(s, acc) ==
    IF s = <<>> \/ Head(s) \notin Digits
    THEN acc
    ELSE ParseDigits(Tail(s), 10 * acc + DigitValue(Head(s)))

\* parseInt(v, 10): a number is its own value; a string is read up to its
\* first non-digit, and is NaN when it starts with none.
parseInt(v) ==
    CASE v.kind = "number" -> [nan |-> FALSE, value |-> v.num]
      [] v.kind = "string" ->
            IF v.str = <<>> \/ Head(v.str) \notin Digits
            THEN [nan |-> TRUE, value |-> 0]
            ELSE [nan |-> FALSE, value |-> ParseDigits(v.str, 0)]
      [] OTHER -> [nan |-> TRUE, value |-> 0]

VARIABLES
    now,                \* Date.now(), milliseconds since the module was loaded
    nextSweep,          \* when the setInterval callback of line 694 is next due
    sockets,            \* socket id -> the transport and its handler position
    activeConnections,  \* Map userId -> socket           (socketManager.js:9)
    activeChatSessions, \* Map userId -> Set of partners  (userService.js:264)
    pendingMessages,    \* Map messageId -> message data, in insertion order
    timers,             \* the setTimeout(attemptDelivery) calls still to fire
    redisInitialized,   \* socketManager.js:12
    exited,             \* the process died of an unhandled promise rejection
    subscribed,         \* the subscription of lines 54-93 was set up
    subscriptionRetry,  \* the setTimeout of lines 101-107 has yet to fire
    geoIndex,           \* sorted set user:positions: member -> coordinates
    positionKeys,       \* keys user:position:<id>, each set with a 60 s expiry
    userDetails,        \* hashes user:details:<id>: the fields each holds
    mainQueue,          \* commands sent on the main client, not yet answered
    pubQueue,           \* commands sent on the publisher client, not yet answered
    subQueue,           \* messages published on user:updates, not yet received
    tasks,              \* handlers suspended at an await, by task key
    updates,            \* history: how many update_location events were handled
    stops,              \* history: how many stop_location_sharing events were handled
    usersUpdates,       \* history: the last users_update emitted, if any
    emitted,            \* history: message events emitted, oldest first
    sends,              \* history: the send_message events handled
    seen,               \* history: how many message_seen events were handled
    client,             \* userService.js:400: "null", or its connection's state
    clientGen,          \* how many times initRedis has stored new clients
    isConnecting,       \* userService.js:406
    reconnectAttempts,  \* userService.js:407
    retryTimers,        \* setTimeout calls of userService.js:559 yet to fire
    initCaller,         \* who awaits the initRedis call in flight, if anyone
    calls,              \* executeRedisCommand calls: position and history
    subscribedGen,      \* the clients whose subscriber holds the callback, or 0
    notes               \* history: notifications published, and whether delivered

timeVars == <<now, nextSweep>>
msgVars == <<pendingMessages, timers, emitted, sends, seen>>
storeVars == <<geoIndex, positionKeys, userDetails, mainQueue, pubQueue,
               subQueue, tasks, updates, stops, usersUpdates>>
procVars == <<redisInitialized, exited, subscribed, subscriptionRetry>>
connVars == <<client, clientGen, isConnecting, reconnectAttempts, retryTimers,
              initCaller, calls, subscribedGen, notes>>
vars == <<timeVars, sockets, activeConnections, activeChatSessions,
          procVars, connVars, msgVars, storeVars>>

(***************************************************************************)
(* Events the server emits to a socket.                                    *)
(***************************************************************************)
\* Faulty variant: the event goes to no socket.
NewMessageToNobody(to, d, status) ==
    [event |-> "new_message", to |-> NoSocket, messageId |-> d.messageId,
     senderId |-> d.senderId, recipientId |-> d.recipientId,
     message |-> d.message, status |-> status]

NewMessage(to, d, status) ==
    [event |-> "new_message", to |-> to, messageId |-> d.messageId,
     senderId |-> d.senderId, recipientId |-> d.recipientId,
     message |-> d.message, status |-> status]

MessageStatus(to, messageId, status) ==
    [event |-> "message_status", to |-> to, messageId |-> messageId,
     senderId |-> NoUser, recipientId |-> NoUser,
     message |-> <<>>, status |-> status]

\* Faulty variant: the receipt names the sender as the one who saw it.
MessageSeenEventBySender(to, messageId, seenBy, senderId) ==
    [event |-> "message_seen", to |-> to, messageId |-> messageId,
     seenBy |-> senderId]

\* senderSocket.emit('message_seen', {messageId, seenBy}) (lines 532-535).
MessageSeenEvent(to, messageId, seenBy, senderId) ==
    [event |-> "message_seen", to |-> to, messageId |-> messageId,
     seenBy |-> seenBy]

\* Map.has / Map.get / Map.set / Map.delete of activeConnections.
Has(map, key) == key \in DOMAIN map
MapSet(map, key, value) ==
    [k \in DOMAIN map \cup {key} |-> IF k = key THEN value ELSE map[k]]
MapDelete(map, key) == [k \in DOMAIN map \ {key} |-> map[k]]
EmptyMap == [k \in {} |-> 0]

\* pendingMessages is a Map iterated in insertion order: a sequence of
\* entries, one per key.
PendingHas(pm, id) == \E i \in DOMAIN pm : pm[i].messageId = id
PendingGet(pm, id) == pm[CHOOSE i \in DOMAIN pm : pm[i].messageId = id]
\* Faulty variant: a set that adds an entry whatever the table holds.
PendingSetAppending(pm, d) == Append(pm, d)

PendingSet(pm, d) ==
    IF PendingHas(pm, d.messageId)
    THEN [i \in DOMAIN pm |-> IF pm[i].messageId = d.messageId THEN d ELSE pm[i]]
    ELSE Append(pm, d)
PendingDelete(pm, id) == SelectSeq(pm, LAMBDA d : d.messageId # id)

(***************************************************************************)
(* io.use authentication middleware (socketManager.js:111-185).            *)
(*   token       whether socket.handshake.auth.token is present            *)
(*   verify      what verifyToken(token) does: returns {valid: true,       *)
(*               decoded}, returns {valid: false, error}, or throws        *)
(*   db          what getUserById(decoded.userId) does: returns the row,   *)
(*               returns null, or throws                                   *)
(*   isActivated the row's isActivated                                     *)
(* The result is "next" or the error given to next().                      *)
(***************************************************************************)
\* Faulty variant: accounts that are not activated are let in.
AuthMiddlewareAnyAccount(token, verify, db, isActivated) ==
    IF ~token THEN "Token required"
    ELSE IF verify = "throws" THEN "Invalid token"
    ELSE IF verify # "valid" THEN "Token invalid"
    ELSE IF db = "throws" THEN "Database error"
    ELSE IF db = "null" THEN "User not found"
    ELSE "next"

AuthMiddleware(token, verify, db, isActivated) ==
    IF ~token THEN "Token required"
    ELSE IF verify = "throws" THEN "Invalid token"
    ELSE IF verify # "valid" THEN "Token invalid"
    ELSE IF db = "throws" THEN "Database error"
    ELSE IF db = "null" THEN "User not found"
    ELSE IF ~isActivated THEN "Account not activated"
    ELSE "next"

\* A socket: st is the position of its handlers; open is whether the
\* transport is connected; error is what the middleware gave to next();
\* credentialsOk records (history) whether the
\* handshake came with a token that verified for an activated, existing user;
\* located records (history) whether an update_location of the socket has
\* called storeUserPosition.
NewSocket ==
    [st |-> "new", userId |-> NoUser, open |-> FALSE, error |-> "",
     credentialsOk |-> FALSE, authenticated |-> FALSE, located |-> FALSE]

HandshakeInputs ==
    [token : BOOLEAN, verify : {"valid", "invalid", "throws"}, userId : Users,
     db : {"row", "null", "throws"}, isActivated : BOOLEAN]

\* The handshakes of clients holding a good token of an activated user.
GoodHandshakes ==
    {h \in HandshakeInputs :
        h.token /\ h.verify = "valid" /\ h.db = "row" /\ h.isActivated}

(***************************************************************************)
(* deliverPendingMessages(userId) (socketManager.js:713-750), run against  *)
(* the registry conns: the events it emits, the entries it leaves, and its *)
(* return value.                                                           *)
(***************************************************************************)
\* Faulty variant: the table is gone through from its last entry to its
\* first.
RECURSIVE DeliverEventsBackwards(_, _, _)
DeliverEventsBackwards(pm, conns, userId) ==
    IF pm = <<>> THEN <<>>
    ELSE LET d == pm[Len(pm)]
             rest == DeliverEventsBackwards(SubSeq(pm, 1, Len(pm) - 1), conns, userId)
         IN  IF d.recipientId = userId /\ Has(conns, userId)
             THEN <<NewMessage(conns[userId], d, "delivered")>>
                  \o (IF Has(conns, d.senderId)
                      THEN <<MessageStatus(conns[d.senderId], d.messageId, "delivered")>>
                      ELSE <<>>)
                  \o rest
             ELSE rest

\* Faulty variant: nothing is emitted for a message whose sender is not in
\* the registry.
RECURSIVE DeliverEventsSenderPresent(_, _, _)
DeliverEventsSenderPresent(pm, conns, userId) ==
    IF pm = <<>> THEN <<>>
    ELSE LET d == Head(pm)
             rest == DeliverEventsSenderPresent(Tail(pm), conns, userId)
         IN  IF d.recipientId = userId /\ Has(conns, userId) /\ Has(conns, d.senderId)
             THEN <<NewMessage(conns[userId], d, "delivered"),
                    MessageStatus(conns[d.senderId], d.messageId, "delivered")>>
                  \o rest
             ELSE rest

RECURSIVE DeliverEvents(_, _, _)
DeliverEvents(pm, conns, userId) ==
    IF pm = <<>> THEN <<>>
    ELSE LET d == Head(pm)
             rest == DeliverEvents(Tail(pm), conns, userId)
         IN  IF d.recipientId = userId /\ Has(conns, userId)
             THEN <<NewMessage(conns[userId], d, "delivered")>>
                  \o (IF Has(conns, d.senderId)
                      THEN <<MessageStatus(conns[d.senderId], d.messageId, "delivered")>>
                      ELSE <<>>)
                  \o rest
             ELSE rest

\* Faulty variant: delivered entries stay in the table.
deliverPendingMessagesKeeping(pm, conns, userId) ==
    [pending |-> pm,
     events |-> DeliverEvents(pm, conns, userId),
     delivered |-> Len(SelectSeq(pm, LAMBDA d : d.recipientId = userId /\ Has(conns, userId)))]

\* Faulty variant: only the first entry of the user is taken from the table.
deliverPendingMessagesFirst(pm, conns, userId) ==
    LET mine == {i \in DOMAIN pm : pm[i].recipientId = userId /\ Has(conns, userId)}
        first == IF mine = {} THEN 0 ELSE CHOOSE i \in mine : \A j \in mine : i <= j
        kept == [i \in 1..(Len(pm) - (IF first = 0 THEN 0 ELSE 1)) |->
                    IF first = 0 \/ i < first THEN pm[i] ELSE pm[i + 1]]
    IN  [pending |-> kept,
         events |-> DeliverEvents(pm, conns, userId),
         delivered |-> Len(pm) - Len(kept)]

\* Faulty variant: the table is emptied, whoever its entries are for.
deliverPendingMessagesAll(pm, conns, userId) ==
    [pending |-> <<>>,
     events |-> DeliverEvents(pm, conns, userId),
     delivered |-> Len(pm)]

deliverPendingMessages(pm, conns, userId) ==
    LET kept == SelectSeq(pm, LAMBDA d : ~(d.recipientId = userId /\ Has(conns, userId)))
    IN  [pending |-> kept,
         events |-> DeliverEvents(pm, conns, userId),
         delivered |-> Len(pm) - Len(kept)]

(***************************************************************************)
(* chatService (userService.js:315-384).                                   *)
(***************************************************************************)
trackChatSession(sessions, userId1, userId2) ==
    LET s1 == IF Has(sessions, userId1) THEN sessions ELSE MapSet(sessions, userId1, {})
        s2 == IF Has(s1, userId2) THEN s1 ELSE MapSet(s1, userId2, {})
        s3 == [s2 EXCEPT ![userId1] = @ \cup {userId2}]
    IN  [s3 EXCEPT ![userId2] = @ \cup {userId1}]

endChatSession(sessions, userId1, userId2) ==
    LET s1 == IF Has(sessions, userId1)
              THEN [sessions EXCEPT ![userId1] = @ \ {userId2}] ELSE sessions
    IN  IF Has(s1, userId2) THEN [s1 EXCEPT ![userId2] = @ \ {userId1}] ELSE s1

\* Faulty variant: only the user's own set is deleted.
cleanupUserSessionsOwnSet(sessions, userId) ==
    IF Has(sessions, userId) THEN MapDelete(sessions, userId) ELSE sessions

cleanupUserSessions(sessions, userId) ==
    IF ~Has(sessions, userId) THEN sessions
    ELSE LET partnerIds == sessions[userId]
             cleaned == [k \in DOMAIN sessions |->
                            IF k \in partnerIds THEN sessions[k] \ {userId}
                            ELSE sessions[k]]
         IN  MapDelete(cleaned, userId)

(***************************************************************************)
(* redisService commands on the store's keys.                              *)
(***************************************************************************)
\* HSET user:details:<id>: storeUserDetails always adds lastUpdate
\* (userService.js:626-632).
HSetDetails(details, userId, fields) ==
    MapSet(details, userId,
           (IF Has(details, userId) THEN details[userId] ELSE {})
               \cup fields \cup {"lastUpdate"})

\* Task keys: the handler of socket s (or broadcast s) suspended at an await.
\* A task holds the command it waits for and what it has read so far; for a
\* broadcast, conns records (history) the registry at its start.
TaskKey(kind, s, n) == [kind |-> kind, s |-> s, n |-> n]
Task(pc, userId, pos) ==
    [pc |-> pc, userId |-> userId, pos |-> pos, chains |-> <<>>, conns |-> <<>>]

(***************************************************************************)
(* broadcastUserUpdates(io) (socketManager.js:188-244) up to its awaits:   *)
(* for every key of activeConnections a chain getUserPosition ->           *)
(* getUserDetails starts, and each chain sends GET user:position:<id>      *)
(* (redisService getUserPosition, userService.js:639-667).  A command      *)
(* takes effect, and a read gets its value, in the order of sending.       *)
(***************************************************************************)
BroadcastsInFlight(tsks) == {k.s : k \in {x \in DOMAIN tsks : x.kind = "broadcast"}}

Chain(pc, pos, details) == [pc |-> pc, pos |-> pos, details |-> details]

broadcastUserUpdates(queue, tsks, conns, keys) ==
    IF ~redisInitialized \/ DOMAIN conns = {}
    THEN [queue |-> queue, tasks |-> tsks]
    ELSE LET inFlight == BroadcastsInFlight(tsks)
             b == CHOOSE n \in 1..(Cardinality(inFlight) + 1) :
                     /\ n \notin inFlight
                     /\ \A m \in 1..(n - 1) : m \in inFlight
             k == TaskKey("broadcast", b, 0)
             chains == [userId \in DOMAIN conns |->
                           Chain("get",
                                 IF Has(keys, userId) THEN <<keys[userId].value>>
                                 ELSE <<>>,
                                 {})]
         IN  [queue |-> Append(queue, k),
              tasks |-> MapSet(tsks, k,
                               [Task("get", NoUser, <<>>) EXCEPT !.chains = chains,
                                                                  !.conns = conns])]

(***************************************************************************)
(* io.on('connection') (socketManager.js:306-343), up to its first await:  *)
(* register the socket and deliver the user's pending messages.  With the  *)
(* store initialised the handler then sends HSET for storeUserDetails and  *)
(* waits for the reply; without it the handler runs on to its end:         *)
(* 'authenticated' is emitted, broadcastUserUpdates returns at once        *)
(* (line 189) and the socket's event handlers are installed.  With the     *)
(* store initialised and its client not ready, storeUserDetails waits in   *)
(* ensureRedisConnection (userService.js:433-445): for the initRedis call  *)
(* it makes, or for a second if one is already in flight.                  *)
(***************************************************************************)
\* Who awaits an initRedis call: a store operation of a handler, a call of
\* the store module, the retry timer or initRedisConnection.
Caller(kind, id) == [kind |-> kind, id |-> id]
NoCaller == Caller("none", 0)

\* initRedis up to its first await (userService.js:448-477), called with
\* isConnecting false: the attempt is counted and the stored clients, if
\* any, are quit; a subscription held by the old subscriber goes with it.
InitRedisBegins(caller) ==
    /\ isConnecting' = TRUE
    /\ reconnectAttempts' = reconnectAttempts + 1
    /\ client' = IF client = "null" THEN "null" ELSE "closed"
    /\ initCaller' = caller

\* Faulty variant: an attempt is begun whether or not one is in flight.
initRedisUnguarded(caller) == InitRedisBegins(caller)

\* initRedis(config) up to its first await (userService.js:448-477): a call
\* made while an attempt is in flight returns false at once (lines 449-452)
\* and touches nothing.
initRedis(caller) ==
    IF isConnecting
    THEN UNCHANGED <<client, isConnecting, reconnectAttempts, initCaller>>
    ELSE InitRedisBegins(caller)

\* ensureRedisConnection (userService.js:433-445) with no ready client:
\* a second of waiting if an attempt is in flight, else an initRedis call.
EnsureRedisConnection(caller) ==
    IF isConnecting
    THEN UNCHANGED <<client, isConnecting, reconnectAttempts, initCaller>>
    ELSE InitRedisBegins(caller)

OnConnection(s, userId, ok) ==
    LET conns == MapSet(activeConnections, userId, s)
        res == deliverPendingMessages(pendingMessages, conns, userId)
    IN  /\ activeConnections' = conns
        /\ pendingMessages' = res.pending
        /\ emitted' = emitted \o res.events
        /\ IF redisInitialized /\ client = "ready"
           THEN /\ userDetails' = HSetDetails(userDetails, userId,
                                     {"name", "phoneNumber", "connectionTime"})
                /\ mainQueue' = Append(mainQueue, TaskKey("connection", s, 0))
                /\ sockets' = [sockets EXCEPT ![s] =
                       [@ EXCEPT !.st = "awaiting", !.userId = userId,
                                 !.open = TRUE, !.credentialsOk = ok]]
                /\ UNCHANGED <<tasks, client, isConnecting, reconnectAttempts,
                               initCaller>>
           ELSE IF redisInitialized
           THEN /\ sockets' = [sockets EXCEPT ![s] =
                       [@ EXCEPT !.st = "awaiting", !.userId = userId,
                                 !.open = TRUE, !.credentialsOk = ok]]
                /\ tasks' = MapSet(tasks, TaskKey("connection", s, 0),
                                   Task("reconnect", userId, <<>>))
                /\ EnsureRedisConnection(Caller("connection", s))
                /\ UNCHANGED <<userDetails, mainQueue>>
           ELSE /\ sockets' = [sockets EXCEPT ![s] =
                       [@ EXCEPT !.st = "ready", !.userId = userId,
                                 !.open = TRUE, !.credentialsOk = ok,
                                 !.authenticated = TRUE]]
                /\ UNCHANGED <<userDetails, mainQueue, tasks, client,
                               isConnecting, reconnectAttempts, initCaller>>

(***************************************************************************)
(* A client opens socket s with one of the handshakes in inputs.  The      *)
(* middleware runs; when it calls next() socket.io raises 'connection' on  *)
(* the next tick, before any other event is handled.  Sockets are numbered *)
(* in the order in which they shake hands, and users in the order in which *)
(* they first connect.                                                     *)
(***************************************************************************)
KnownUsers == {sockets[r].userId : r \in SocketIds} \ {NoUser}

Connect(s, inputs) ==
    /\ ~exited
    /\ sockets[s].st = "new"
    /\ \A r \in SocketIds : r < s => sockets[r].st # "new"
    /\ \E h \in inputs :
          /\ h.userId <= Cardinality(KnownUsers) + 1
          /\ IF AuthMiddleware(h.token, h.verify, h.db, h.isActivated) = "next"
             THEN OnConnection(s, h.userId, h \in GoodHandshakes)
             ELSE /\ sockets' = [sockets EXCEPT ![s] =
                         [@ EXCEPT !.st = "rejected",
                                   !.error = AuthMiddleware(h.token, h.verify,
                                                            h.db, h.isActivated),
                                   !.credentialsOk = (h \in GoodHandshakes)]]
                  /\ UNCHANGED <<activeConnections, pendingMessages, emitted,
                                 userDetails, mainQueue, tasks, client,
                                 isConnecting, reconnectAttempts, initCaller>>
    /\ UNCHANGED <<timeVars, activeChatSessions, procVars, clientGen,
                   retryTimers, calls, subscribedGen, notes, timers, sends,
                   seen, geoIndex, positionKeys, pubQueue, subQueue, updates,
                   stops, usersUpdates>>

(***************************************************************************)
(* socket.on('send_message') (socketManager.js:377-516).  The handler has  *)
(* no await: it runs in one step.  data = {recipientId, message,           *)
(* messageId}; generated is the id line 418 makes when messageId is falsy. *)
(***************************************************************************)
DigitChar(n) == CHOOSE c \in Digits : DigitValue(c) = n

RecipientInputs ==
    {JsUndefined, JsNumber(0), JsString(<<>>), JsString(<<"x">>)}
    \cup {JsNumber(u) : u \in Users}
    \cup {JsString(<<DigitChar(u)>>) : u \in Users}
    \cup {JsString(<<DigitChar(u), "x">>) : u \in Users}

MessageInputs == {JsUndefined, JsString(<<>>), JsString(<<"a">>), JsNumber(7)}

\* recipientId names user u: the number u, or a string whose leading
\* digits spell u.
Names(recipientId, u) ==
    \/ recipientId = JsNumber(u)
    \/ /\ recipientId.kind = "string"
       /\ Len(recipientId.str) >= 1
       /\ recipientId.str[1] = DigitChar(u)
       /\ (Len(recipientId.str) >= 2 => recipientId.str[2] \notin Digits)

\* What a send_message asks for, read off its payload and the registry as
\* they are when the event is handled (history, for the properties).
SendClass(senderId, recipientId, message, conns) ==
    IF recipientId.kind = "undefined" \/ message.kind = "undefined" THEN "missing"
    ELSE IF \E u \in Users : Names(recipientId, u)
    THEN LET r == CHOOSE u \in Users : Names(recipientId, u)
         IN  IF r = senderId THEN "self"
             ELSE IF message = JsString(<<>>) THEN "empty"
             ELSE IF r \in DOMAIN conns THEN "online" ELSE "offline"
    ELSE IF recipientId.kind = "string"
            /\ (recipientId.str = <<>> \/ Head(recipientId.str) \notin Digits)
    THEN "unparsable"
    ELSE "other"

UsedIds == {sends[i].messageId : i \in DOMAIN sends}

\* Message ids are interchangeable: a client that never repeats an id uses
\* the least unused one, and so does the generator of line 418.
Least(S) == CHOOSE x \in S : \A y \in S : x <= y
FreshClientIds == {Least(ClientMessageIds \ UsedIds)}
FreshGeneratedIds == {Least(GeneratedMessageIds \ UsedIds)}

\* Faulty variant: sending to oneself is let through.
SendMessageValidationNoSelf(senderId, recipientId, message) ==
    IF Falsy(recipientId) \/ Falsy(message) THEN "Invalid message data"
    ELSE IF parseInt(recipientId).nan THEN "Invalid recipient ID"
    ELSE "ok"

\* The checks of socketManager.js:382-412: what is wrong with the payload,
\* or "ok".
SendMessageValidation(senderId, recipientId, message) ==
    IF Falsy(recipientId) \/ Falsy(message) THEN "Invalid message data"
    ELSE IF parseInt(recipientId).nan THEN "Invalid recipient ID"
    ELSE IF parseInt(recipientId).value = senderId
    THEN "Cannot send messages to yourself"
    ELSE "ok"

\* Line 378 logs data.recipientId and data.message?.substring(0, 20) before
\* anything is checked: it throws a TypeError when there is no payload and
\* when message is neither absent nor a string.  The handler is an async
\* function called by the event emitter, nothing handles its rejection, and
\* Node 18 (Dockerfile) ends the process on an unhandled rejection.
LogThrows(data) ==
    \/ ~data.present
    \/ data.message.kind \notin {"undefined", "string"}

\* The payloads { recipientId, message, messageId } of the given fields,
\* and the send_message with no payload.
Payloads(recipients, messages, messageIds) ==
    [present : {TRUE}, recipientId : recipients, message : messages,
     messageId : messageIds]
NoPayload ==
    [present |-> FALSE, recipientId |-> JsUndefined, message |-> JsUndefined,
     messageId |-> NoId]

\* The client of socket s sends send_message with one of the payloads;
\* generated is what line 418 makes up when the payload has no messageId.
SendMessage(s, payloads, generatedIds) ==
    /\ ~exited
    /\ sockets[s].st = "ready"
    /\ sockets[s].open
    /\ Len(sends) < MaxSends
    /\ now + MESSAGE_EXPIRY + SWEEP_INTERVAL <= MaxTime
    /\ \E data \in payloads, generated \in generatedIds :
       LET recipientId == data.recipientId
           message == data.message
           messageId == data.messageId
           senderId == sockets[s].userId
           target == parseInt(recipientId)
           targetId == target.value
           finalMessageId == IF messageId # NoId THEN messageId ELSE generated
           invalid == SendMessageValidation(senderId, recipientId, message) # "ok"
           error == /\ emitted' = Append(emitted, MessageStatus(s, messageId, "error"))
                    /\ UNCHANGED <<activeChatSessions, pendingMessages, timers>>
           payload == [messageId |-> finalMessageId, senderId |-> senderId,
                       recipientId |-> targetId, message |-> message.str,
                       timestamp |-> now, expiresAt |-> now + MESSAGE_EXPIRY]
       IN  /\ sends' = Append(sends,
                  [socket |-> s, senderId |-> senderId,
                   typed |-> ~LogThrows(data),
                   class |-> SendClass(senderId, recipientId, message, activeConnections),
                   targetId |-> IF target.nan THEN NoUser ELSE targetId,
                   messageId |-> IF invalid \/ LogThrows(data)
                                 THEN messageId ELSE finalMessageId,
                   recipientSocket |-> IF ~target.nan /\ Has(activeConnections, targetId)
                                       THEN activeConnections[targetId] ELSE NoSocket,
                   replaced |-> IF ~invalid /\ ~LogThrows(data)
                                   /\ ~Has(activeConnections, targetId)
                                   /\ PendingHas(pendingMessages, finalMessageId)
                                THEN <<PendingGet(pendingMessages, finalMessageId),
                                       payload>>
                                ELSE <<>>])
           /\ IF LogThrows(data)
              THEN /\ exited' = TRUE
                   /\ sockets' = [r \in SocketIds |-> [sockets[r] EXCEPT !.open = FALSE]]
                   /\ UNCHANGED <<activeChatSessions, pendingMessages, timers, emitted>>
              ELSE /\ UNCHANGED <<exited, sockets>>
                   /\ IF invalid THEN error
                      ELSE /\ activeChatSessions' =
                                  trackChatSession(activeChatSessions, senderId, targetId)
                           /\ IF Has(activeConnections, targetId)
                              THEN /\ emitted' = emitted \o
                                         <<NewMessage(activeConnections[targetId],
                                                      payload, "delivered"),
                                           MessageStatus(s, finalMessageId, "delivered")>>
                                   /\ UNCHANGED <<pendingMessages, timers>>
                              ELSE /\ pendingMessages' =
                                          PendingSet(pendingMessages, payload)
                                   /\ emitted' = Append(emitted,
                                         MessageStatus(s, finalMessageId, "pending"))
                                   /\ timers' = Append(timers,
                                         [messageId |-> finalMessageId,
                                          targetId |-> targetId,
                                          base |-> now, fired |-> 0])
    /\ UNCHANGED <<timeVars, activeConnections, redisInitialized, subscribed,
                   subscriptionRetry, seen, connVars,
                   storeVars>>

(***************************************************************************)
(* socket.on('message_seen') (socketManager.js:519-543), a handler without *)
(* an await.  data = {messageId, senderId}: when either is falsy the       *)
(* handler returns; otherwise the receipt goes to the handle the registry  *)
(* holds for parseInt(senderId, 10), if it holds one.  A run handles at    *)
(* most MaxSeen such events.                                               *)
(***************************************************************************)
SeenInputs(messageIds, senders) == [messageId : messageIds, senderId : senders]

MessageSeen(s, inputs) ==
    /\ ~exited
    /\ sockets[s].st = "ready"
    /\ sockets[s].open
    /\ seen < MaxSeen
    /\ seen' = seen + 1
    /\ \E data \in inputs :
          LET messageId == data.messageId
              senderId == data.senderId
              target == parseInt(senderId)
          IN  IF messageId = NoId \/ Falsy(senderId)
              THEN UNCHANGED emitted
              ELSE IF ~target.nan /\ Has(activeConnections, target.value)
                   THEN emitted' = Append(emitted,
                            MessageSeenEvent(activeConnections[target.value],
                                             messageId, sockets[s].userId,
                                             target.value))
                   ELSE UNCHANGED emitted
    /\ UNCHANGED <<timeVars, sockets, activeConnections, activeChatSessions,
                   procVars, connVars, pendingMessages, timers, sends, storeVars>>

(***************************************************************************)
(* attemptDelivery (socketManager.js:469-501), the callback of the ten     *)
(* setTimeout calls of lines 504-507.  A timer entry stands for the calls  *)
(* of one send: fired of them have run, the next is due at                 *)
(* base + (fired + 1) * 30000.                                             *)
(***************************************************************************)
\* Faulty variant: the calls are set half an interval apart.
TimerDueEarly(t) == t.base + (t.fired + 1) * Tick

TimerDue(t) == t.base + (t.fired + 1) * RETRY_INTERVAL

attemptDelivery(pm, conns, messageId, targetId) ==
    IF ~PendingHas(pm, messageId) THEN [pending |-> pm, events |-> <<>>]
    ELSE IF Has(conns, targetId)
    THEN LET pendingMessage == PendingGet(pm, messageId)
         IN  [pending |-> PendingDelete(pm, messageId),
              events |-> <<NewMessage(conns[targetId], pendingMessage, "delivered")>>
                  \o (IF Has(conns, pendingMessage.senderId)
                      THEN <<MessageStatus(conns[pendingMessage.senderId],
                                           pendingMessage.messageId, "delivered")>>
                      ELSE <<>>)]
    ELSE [pending |-> pm, events |-> <<>>]

\* The timers once call fired + 1 of entry i has run: after the last of the
\* retryCount calls nothing of the send is left.
AfterFiring(tm, i) ==
    IF tm[i].fired + 1 = retryCount
    THEN [j \in 1..(Len(tm) - 1) |-> IF j < i THEN tm[j] ELSE tm[j + 1]]
    ELSE [tm EXCEPT ![i].fired = @ + 1]

RetryFire(i) ==
    /\ ~exited
    /\ i \in DOMAIN timers
    /\ TimerDue(timers[i]) <= now
    /\ LET t == timers[i]
           res == attemptDelivery(pendingMessages, activeConnections,
                                  t.messageId, t.targetId)
       IN  /\ pendingMessages' = res.pending
           /\ emitted' = emitted \o res.events
           /\ timers' = AfterFiring(timers, i)
    /\ UNCHANGED <<timeVars, sockets, activeConnections, activeChatSessions,
                   procVars, connVars, sends, seen, storeVars>>

(***************************************************************************)
(* The expiry sweep, setInterval(.., 30000) (socketManager.js:694-710).    *)
(***************************************************************************)
\* Faulty variant: the sweep tells nobody.
SweepEventsSilent(pm, conns, time) == <<>>

\* Faulty variant: the sweep reports every entry, expired or not.
SweepEventsAll(pm, conns, time) ==
    [i \in DOMAIN SelectSeq(pm, LAMBDA data : Has(conns, data.senderId)) |->
        LET data == SelectSeq(pm, LAMBDA x : Has(conns, x.senderId))[i]
        IN  MessageStatus(conns[data.senderId], data.messageId, "failed")]

RECURSIVE SweepEvents(_, _, _)
SweepEvents(pm, conns, time) ==
    IF pm = <<>> THEN <<>>
    ELSE LET data == Head(pm)
             rest == SweepEvents(Tail(pm), conns, time)
         IN  IF time > data.expiresAt /\ Has(conns, data.senderId)
             THEN <<MessageStatus(conns[data.senderId], data.messageId, "failed")>> \o rest
             ELSE rest

\* Faulty variant: the sweep deletes nothing.
SweepKeptAll(pm, time) == pm

SweepKept(pm, time) == SelectSeq(pm, LAMBDA data : ~(time > data.expiresAt))

Sweep ==
    /\ ~exited
    /\ nextSweep <= now
    /\ emitted' = emitted \o SweepEvents(pendingMessages, activeConnections, now)
    /\ pendingMessages' = SweepKept(pendingMessages, now)
    /\ nextSweep' = nextSweep + SWEEP_INTERVAL
    /\ UNCHANGED <<now, sockets, activeConnections, activeChatSessions,
                   procVars, connVars, timers, sends, seen, storeVars>>

\* Time passes; timers run when they are due.  Only differences between
\* clock readings matter, so while no message is pending and no retry timer
\* is set the clock's origin moves along with it.
ClockTick ==
    /\ ~exited
    /\ nextSweep > now
    /\ \A i \in DOMAIN timers : TimerDue(timers[i]) > now
    /\ IF timers = <<>> /\ pendingMessages = <<>>
       THEN /\ now' = (now + Tick) % SWEEP_INTERVAL
            /\ nextSweep' = nextSweep - ((now + Tick) - now')
       ELSE /\ now' = now + Tick
            /\ UNCHANGED nextSweep
    /\ UNCHANGED <<sockets, activeConnections, activeChatSessions,
                   procVars, connVars, msgVars, storeVars>>

(***************************************************************************)
(* socket.on('disconnect') (socketManager.js:597-628), up to its first     *)
(* await.  It runs when the transport of a socket whose handlers are       *)
(* installed closes.  With the store initialised it sends ZREM for         *)
(* removeUserPosition and waits; without it broadcastUserUpdates returns   *)
(* at once and the handler is over.                                        *)
(***************************************************************************)
\* A ZREM that removes no member.
ZRemKeeping(geo, userId) == geo

\* A DEL that removes no key.
DelKeeping(keys, userId) == keys

\* DEL user:position:<id> (userService.js:769-770).
Del(keys, userId) == IF Has(keys, userId) THEN MapDelete(keys, userId) ELSE keys

ZRem(geo, userId) == IF Has(geo, userId) THEN MapDelete(geo, userId) ELSE geo

OnDisconnect(s) ==
    /\ ~exited
    /\ sockets[s].st = "ready"
    /\ sockets[s].open
    /\ LET userId == sockets[s].userId
       IN  /\ activeChatSessions' = cleanupUserSessions(activeChatSessions, userId)
           /\ activeConnections' = IF Has(activeConnections, userId)
                                   THEN MapDelete(activeConnections, userId)
                                   ELSE activeConnections
           /\ sockets' = [sockets EXCEPT ![s].st = "closed", ![s].open = FALSE]
           /\ IF redisInitialized
              THEN /\ geoIndex' = ZRem(geoIndex, userId)
                   /\ mainQueue' = Append(mainQueue, TaskKey("disconnect", s, 0))
                   /\ tasks' = MapSet(tasks, TaskKey("disconnect", s, 0),
                                      Task("zrem", userId, <<>>))
              ELSE UNCHANGED <<geoIndex, mainQueue, tasks>>
    /\ UNCHANGED <<timeVars, procVars, connVars, msgVars, positionKeys, userDetails,
                   pubQueue, subQueue, updates, stops, usersUpdates>>

(***************************************************************************)
(* The connection handler after its await (socketManager.js:333-343 and    *)
(* the socket.on calls that follow): 'authenticated' is emitted, a         *)
(* broadcast starts and only now the socket's handlers, the 'disconnect'   *)
(* handler among them, are installed.                                      *)
(***************************************************************************)
ConnectionResume(s) ==
    /\ ~exited
    /\ sockets[s].st = "awaiting"
    /\ mainQueue # <<>>
    /\ Head(mainQueue) = TaskKey("connection", s, 0)
    /\ LET started == broadcastUserUpdates(Tail(mainQueue), tasks,
                                           activeConnections, positionKeys)
       IN  /\ mainQueue' = started.queue
           /\ tasks' = started.tasks
    /\ sockets' = [sockets EXCEPT ![s].st = "ready", ![s].authenticated = TRUE]
    /\ UNCHANGED <<timeVars, activeConnections, activeChatSessions, procVars, connVars,
                   msgVars, geoIndex, positionKeys, userDetails, pubQueue,
                   subQueue, updates, stops, usersUpdates>>

(***************************************************************************)
(* The storeUserDetails call of a connection handler throws: its initRedis *)
(* call has failed, or its second of waiting is over and the client is     *)
(* still not ready ('Redis not initialized', userService.js:622-624).  The *)
(* handler logs the error (line 329) and goes on as above.  Its broadcast  *)
(* starts getUserPosition for the registry's keys, which wait in           *)
(* ensureRedisConnection in their turn.                                    *)
(***************************************************************************)
StoreDetailsThrows(s) ==
    /\ ~exited
    /\ sockets[s].st = "awaiting"
    /\ Has(tasks, TaskKey("connection", s, 0))
    /\ tasks[TaskKey("connection", s, 0)].pc = "reconnect"
    /\ initCaller # Caller("connection", s)
    /\ client # "ready"
    /\ sockets' = [sockets EXCEPT ![s].st = "ready", ![s].authenticated = TRUE]
    /\ LET rest == MapDelete(tasks, TaskKey("connection", s, 0))
           inFlight == BroadcastsInFlight(rest)
           b == CHOOSE n \in 1..(Cardinality(inFlight) + 1) :
                   /\ n \notin inFlight
                   /\ \A m \in 1..(n - 1) : m \in inFlight
       IN  IF DOMAIN activeConnections = {}
           THEN /\ tasks' = rest
                /\ UNCHANGED <<client, isConnecting, reconnectAttempts, initCaller>>
           ELSE /\ tasks' = MapSet(rest, TaskKey("broadcast", b, 0),
                                   Task("reconnect", NoUser, <<>>))
                /\ EnsureRedisConnection(Caller("broadcast", b))
    /\ UNCHANGED <<timeVars, activeConnections, activeChatSessions, procVars,
                   clientGen, retryTimers, calls, subscribedGen, notes,
                   msgVars, geoIndex, positionKeys, userDetails, mainQueue,
                   pubQueue, subQueue, updates, stops, usersUpdates>>

(***************************************************************************)
(* The store calls of a broadcast started without a ready client throw,    *)
(* each caught for its user (socketManager.js:229-232): every entry is     *)
(* null and the users_update emitted lists nobody (line 240).              *)
(***************************************************************************)
BroadcastThrows(k) ==
    /\ ~exited
    /\ k \in DOMAIN tasks
    /\ k.kind = "broadcast"
    /\ tasks[k].pc = "reconnect"
    /\ initCaller # Caller("broadcast", k.s)
    /\ client # "ready"
    /\ usersUpdates' = <<{}>>
    /\ tasks' = MapDelete(tasks, k)
    /\ UNCHANGED <<timeVars, sockets, activeConnections, activeChatSessions,
                   procVars, connVars, msgVars, geoIndex, positionKeys,
                   userDetails, mainQueue, pubQueue, subQueue, updates, stops>>

\* The transport of a socket closes while its connection handler is at its
\* await: socket.io emits 'disconnect' on the socket, which has no listener
\* yet.
TransportClose(s) ==
    /\ ~exited
    /\ sockets[s].st = "awaiting"
    /\ sockets[s].open
    /\ sockets' = [sockets EXCEPT ![s].open = FALSE]
    /\ UNCHANGED <<timeVars, activeConnections, activeChatSessions, procVars, connVars,
                   msgVars, storeVars>>

(***************************************************************************)
(* The chains of a broadcast get their replies (socketManager.js:207-233): *)
(* after GET, GEOPOS if the key was missing (userService.js:652-666), then *)
(* HGETALL (getUserDetails, 670-679).  hGetAll answers an object even for  *)
(* a missing hash, so `details && position` is decided by position.  When  *)
(* every chain is through, users_update goes to every socket.  The reads   *)
(* that follow GET are answered before another handler runs: a broadcast   *)
(* is one entry of the queue.                                              *)
(***************************************************************************)
ChainStep(chain, userId) ==
    CASE chain.pc = "get" /\ chain.pos = <<>> ->
            Chain("geopos",
                  IF Has(geoIndex, userId) THEN <<geoIndex[userId]>> ELSE <<>>, {})
      [] chain.pc = "geopos" \/ (chain.pc = "get" /\ chain.pos # <<>>) ->
            Chain("hgetall", chain.pos,
                  IF Has(userDetails, userId) THEN userDetails[userId] ELSE {})
      [] OTHER -> Chain("done", chain.pos, chain.details)

ChainRun(chain, userId) ==
    ChainStep(ChainStep(ChainStep(chain, userId), userId), userId)

BroadcastStep(k) ==
    /\ ~exited
    /\ k \in DOMAIN tasks
    /\ k.kind = "broadcast"
    /\ mainQueue # <<>>
    /\ Head(mainQueue) = k
    /\ LET chains == [userId \in DOMAIN tasks[k].chains |->
                         ChainRun(tasks[k].chains[userId], userId)]
       IN  /\ usersUpdates' =
                 <<{[id |-> userId,
                     name |-> "name" \in chains[userId].details,
                     location |-> chains[userId].pos[1]] :
                       userId \in {u \in DOMAIN chains : chains[u].pos # <<>>}}>>
           /\ tasks' = MapDelete(tasks, k)
           /\ mainQueue' = Tail(mainQueue)
    /\ UNCHANGED <<timeVars, sockets, activeConnections, activeChatSessions,
                   procVars, connVars, msgVars, geoIndex, positionKeys, userDetails,
                   pubQueue, subQueue, updates, stops>>

(***************************************************************************)
(* socket.on('update_location') (socketManager.js:346-374) up to its first *)
(* await: a payload without latitude or longitude (0 counts as without) is *)
(* dropped; otherwise storeUserPosition (userService.js:588-617) sends     *)
(* GEOADD and waits.                                                       *)
(***************************************************************************)
LocationInputs ==
    [present : {TRUE}, latitude : 0..MaxCoordinate, longitude : 0..1]
    \cup {[present |-> FALSE, latitude |-> 0, longitude |-> 0]}

UpdateLocation(s, inputs) ==
    /\ ~exited
    /\ sockets[s].st = "ready"
    /\ sockets[s].open
    /\ updates < MaxUpdates
    /\ updates' = updates + 1
    /\ \E data \in inputs :
          IF ~data.present \/ data.latitude = 0 \/ data.longitude = 0
             \/ ~redisInitialized
          THEN UNCHANGED <<sockets, geoIndex, mainQueue, tasks>>
          ELSE LET userId == sockets[s].userId
                   position == [longitude |-> data.longitude,
                                latitude |-> data.latitude]
                   k == TaskKey("update", s,
                                CHOOSE n \in 1..MaxUpdates :
                                   /\ TaskKey("update", s, n) \notin DOMAIN tasks
                                   /\ \A m \in 1..(n - 1) :
                                         TaskKey("update", s, m) \in DOMAIN tasks)
               IN  /\ sockets' = [sockets EXCEPT ![s].located = TRUE]
                   /\ geoIndex' = MapSet(geoIndex, userId, position)
                   /\ mainQueue' = Append(mainQueue, k)
                   /\ tasks' = MapSet(tasks, k, Task("geoadd", userId, <<position>>))
    /\ UNCHANGED <<timeVars, activeConnections, activeChatSessions,
                   procVars, connVars, msgVars, positionKeys, userDetails, pubQueue,
                   subQueue, stops, usersUpdates>>

\* PUBLISH user:updates reaches the subscriber, if the subscription was set up
\* and the subscriber it was made on is still the stored one.
Publish(queue, userId, type) ==
    IF subscribed /\ subscribedGen = clientGen
    THEN Append(queue, [userId |-> userId, type |-> type]) ELSE queue

(***************************************************************************)
(* The update_location handler gets a reply and goes on to its next        *)
(* command: SET user:position:<id> (which drops the key's expiry), EXPIRE  *)
(* 60, PUBLISH on the publisher client, then HSET lastUpdate               *)
(* (storeUserDetails, userService.js:620-636).                             *)
(***************************************************************************)
\* Faulty variant: a SET that leaves an existing key as it is.
SetPositionIfAbsent(keys, userId, position) ==
    IF Has(keys, userId) THEN keys
    ELSE MapSet(keys, userId, [value |-> position, ttl |-> FALSE])

\* SET user:position:<id> (userService.js:599-603): the key gets the value
\* and loses its expiry.
SetPosition(keys, userId, position) ==
    MapSet(keys, userId, [value |-> position, ttl |-> FALSE])

UpdateLocationStep(k) ==
    /\ ~exited
    /\ k \in DOMAIN tasks
    /\ k.kind = "update"
    /\ LET task == tasks[k]
           userId == task.userId
       IN  CASE task.pc = "geoadd" ->
                  /\ mainQueue # <<>> /\ Head(mainQueue) = k
                  /\ positionKeys' = SetPosition(positionKeys, userId, task.pos[1])
                  /\ mainQueue' = Append(Tail(mainQueue), k)
                  /\ tasks' = [tasks EXCEPT ![k].pc = "set"]
                  /\ UNCHANGED <<userDetails, pubQueue, subQueue>>
             [] task.pc = "set" ->
                  /\ mainQueue # <<>> /\ Head(mainQueue) = k
                  /\ positionKeys' = IF Has(positionKeys, userId)
                                     THEN [positionKeys EXCEPT ![userId].ttl = TRUE]
                                     ELSE positionKeys
                  /\ mainQueue' = Append(Tail(mainQueue), k)
                  /\ tasks' = [tasks EXCEPT ![k].pc = "expire"]
                  /\ UNCHANGED <<userDetails, pubQueue, subQueue>>
             [] task.pc = "expire" ->
                  /\ mainQueue # <<>> /\ Head(mainQueue) = k
                  /\ mainQueue' = Tail(mainQueue)
                  /\ pubQueue' = Append(pubQueue, k)
                  /\ subQueue' = Publish(subQueue, userId, "update")
                  /\ tasks' = [tasks EXCEPT ![k].pc = "publish"]
                  /\ UNCHANGED <<positionKeys, userDetails>>
             [] task.pc = "publish" ->
                  /\ pubQueue # <<>> /\ Head(pubQueue) = k
                  /\ pubQueue' = Tail(pubQueue)
                  /\ userDetails' = HSetDetails(userDetails, userId, {})
                  /\ mainQueue' = Append(mainQueue, k)
                  /\ tasks' = [tasks EXCEPT ![k].pc = "hset"]
                  /\ UNCHANGED <<positionKeys, subQueue>>
             [] task.pc = "hset" ->
                  /\ mainQueue # <<>> /\ Head(mainQueue) = k
                  /\ mainQueue' = Tail(mainQueue)
                  /\ tasks' = MapDelete(tasks, k)
                  /\ UNCHANGED <<positionKeys, userDetails, pubQueue, subQueue>>
    /\ UNCHANGED <<timeVars, sockets, activeConnections, activeChatSessions,
                   procVars, connVars, msgVars, geoIndex, updates, stops, usersUpdates>>

(***************************************************************************)
(* The disconnect handler gets a reply (socketManager.js:607-627): after   *)
(* ZREM, removeUserPosition (userService.js:759-783) sends DEL             *)
(* user:position:<id> and PUBLISHes the removal; then storeUserDetails     *)
(* sends HSET disconnectionTime; then a broadcast starts.                  *)
(***************************************************************************)
DisconnectStep(k) ==
    /\ ~exited
    /\ k \in DOMAIN tasks
    /\ k.kind = "disconnect"
    /\ LET task == tasks[k]
           userId == task.userId
       IN  CASE task.pc = "zrem" ->
                  /\ mainQueue # <<>> /\ Head(mainQueue) = k
                  /\ positionKeys' = Del(positionKeys, userId)
                  /\ mainQueue' = Append(Tail(mainQueue), k)
                  /\ tasks' = [tasks EXCEPT ![k].pc = "del"]
                  /\ UNCHANGED <<userDetails, pubQueue, subQueue>>
             [] task.pc = "del" ->
                  /\ mainQueue # <<>> /\ Head(mainQueue) = k
                  /\ mainQueue' = Tail(mainQueue)
                  /\ pubQueue' = Append(pubQueue, k)
                  /\ subQueue' = Publish(subQueue, userId, "removal")
                  /\ tasks' = [tasks EXCEPT ![k].pc = "publish"]
                  /\ UNCHANGED <<positionKeys, userDetails>>
             [] task.pc = "publish" ->
                  /\ pubQueue # <<>> /\ Head(pubQueue) = k
                  /\ pubQueue' = Tail(pubQueue)
                  /\ userDetails' = HSetDetails(userDetails, userId,
                                                {"disconnectionTime"})
                  /\ mainQueue' = Append(mainQueue, k)
                  /\ tasks' = [tasks EXCEPT ![k].pc = "hset"]
                  /\ UNCHANGED <<positionKeys, subQueue>>
             [] task.pc = "hset" ->
                  /\ mainQueue # <<>> /\ Head(mainQueue) = k
                  /\ LET started == broadcastUserUpdates(
                                        Tail(mainQueue), MapDelete(tasks, k),
                                        activeConnections, positionKeys)
                     IN  /\ mainQueue' = started.queue
                         /\ tasks' = started.tasks
                  /\ UNCHANGED <<positionKeys, userDetails, pubQueue, subQueue>>
    /\ UNCHANGED <<timeVars, sockets, activeConnections, activeChatSessions,
                   procVars, connVars, msgVars, geoIndex, updates, stops, usersUpdates>>

(***************************************************************************)
(* The subscriber receives a message of user:updates (socketManager.js     *)
(* 63-77): a removal is logged, a position update starts a broadcast.      *)
(***************************************************************************)
OnUserUpdate ==
    /\ ~exited
    /\ subQueue # <<>>
    /\ subQueue' = Tail(subQueue)
    /\ IF Head(subQueue).type = "removal"
       THEN UNCHANGED <<mainQueue, tasks>>
       ELSE LET started == broadcastUserUpdates(mainQueue, tasks,
                                                activeConnections, positionKeys)
            IN  /\ mainQueue' = started.queue
                /\ tasks' = started.tasks
    /\ UNCHANGED <<timeVars, sockets, activeConnections, activeChatSessions,
                   procVars, connVars, msgVars, geoIndex, positionKeys, userDetails,
                   pubQueue, updates, stops, usersUpdates>>

\* The store drops a position key whose 60 seconds (POSITION_EXPIRY) are over.
KeyExpires(userId) ==
    /\ Has(positionKeys, userId)
    /\ positionKeys[userId].ttl
    /\ positionKeys' = MapDelete(positionKeys, userId)
    /\ UNCHANGED <<timeVars, sockets, activeConnections, activeChatSessions,
                   procVars, connVars, msgVars, geoIndex, userDetails, mainQueue,
                   pubQueue, subQueue, tasks, updates, stops, usersUpdates>>

(***************************************************************************)
(* socket.on('stop_location_sharing') (socketManager.js:546-567), up to    *)
(* its await.  Without the store the handler only logs a warning.  With it *)
(* the handler sends ZREM for removeUserPosition and waits.  A socket has  *)
(* one such request in flight at a time.                                   *)
(***************************************************************************)
StopLocationSharing(s) ==
    /\ ~exited
    /\ sockets[s].st = "ready"
    /\ sockets[s].open
    /\ TaskKey("stop", s, 0) \notin DOMAIN tasks
    /\ stops < MaxStops
    /\ stops' = stops + 1
    /\ IF redisInitialized
       THEN /\ geoIndex' = ZRem(geoIndex, sockets[s].userId)
            /\ mainQueue' = Append(mainQueue, TaskKey("stop", s, 0))
            /\ tasks' = MapSet(tasks, TaskKey("stop", s, 0),
                               Task("zrem", sockets[s].userId, <<>>))
       ELSE UNCHANGED <<geoIndex, mainQueue, tasks>>
    /\ UNCHANGED <<timeVars, sockets, activeConnections, activeChatSessions,
                   procVars, connVars, msgVars, positionKeys, userDetails, pubQueue,
                   subQueue, updates, usersUpdates>>

(***************************************************************************)
(* The stop_location_sharing handler gets a reply: after ZREM it sends DEL *)
(* and PUBLISHes the removal (removeUserPosition, userService.js:759-783). *)
(* Then it starts a broadcast and calls socket.disconnect(true) (lines     *)
(* 557-561): if the socket is still connected, socket.io closes it and     *)
(* emits 'disconnect' at once, so the 'disconnect' handler runs to its     *)
(* await (lines 597-611) within the call; on a socket that has already     *)
(* disconnected the call does nothing.                                     *)
(***************************************************************************)
StopStep(k) ==
    /\ ~exited
    /\ k \in DOMAIN tasks
    /\ k.kind = "stop"
    /\ LET task == tasks[k]
           userId == task.userId
           s == k.s
       IN  CASE task.pc = "zrem" ->
                  /\ mainQueue # <<>> /\ Head(mainQueue) = k
                  /\ positionKeys' = Del(positionKeys, userId)
                  /\ mainQueue' = Append(Tail(mainQueue), k)
                  /\ tasks' = [tasks EXCEPT ![k].pc = "del"]
                  /\ UNCHANGED <<sockets, activeConnections, activeChatSessions,
                                 geoIndex, pubQueue, subQueue>>
             [] task.pc = "del" ->
                  /\ mainQueue # <<>> /\ Head(mainQueue) = k
                  /\ mainQueue' = Tail(mainQueue)
                  /\ pubQueue' = Append(pubQueue, k)
                  /\ subQueue' = Publish(subQueue, userId, "removal")
                  /\ tasks' = [tasks EXCEPT ![k].pc = "publish"]
                  /\ UNCHANGED <<sockets, activeConnections, activeChatSessions,
                                 geoIndex, positionKeys>>
             [] task.pc = "publish" ->
                  /\ pubQueue # <<>> /\ Head(pubQueue) = k
                  /\ pubQueue' = Tail(pubQueue)
                  /\ LET started == broadcastUserUpdates(
                                        mainQueue, MapDelete(tasks, k),
                                        activeConnections, positionKeys)
                     IN  IF sockets[s].open
                         THEN /\ sockets' = [sockets EXCEPT ![s].st = "closed",
                                                            ![s].open = FALSE]
                              /\ activeChatSessions' =
                                    cleanupUserSessions(activeChatSessions, userId)
                              /\ activeConnections' =
                                    IF Has(activeConnections, userId)
                                    THEN MapDelete(activeConnections, userId)
                                    ELSE activeConnections
                              /\ geoIndex' = ZRem(geoIndex, userId)
                              /\ mainQueue' = Append(started.queue,
                                                     TaskKey("disconnect", s, 0))
                              /\ tasks' = MapSet(started.tasks,
                                                 TaskKey("disconnect", s, 0),
                                                 Task("zrem", userId, <<>>))
                         ELSE /\ mainQueue' = started.queue
                              /\ tasks' = started.tasks
                              /\ UNCHANGED <<sockets, activeConnections,
                                             activeChatSessions, geoIndex>>
                  /\ UNCHANGED <<positionKeys, subQueue>>
    /\ UNCHANGED <<timeVars, procVars, connVars, msgVars, userDetails, updates, stops,
                   usersUpdates>>

(***************************************************************************)
(* The store connection of redisService (userService.js:396-585).          *)
(*                                                                         *)
(* client is "null" before the first clients are stored (line 400), and    *)
(* otherwise tells the state of the stored clients: "ready" (isReady),     *)
(* "lost" (the connection dropped) or "closed" (initRedis has quit them,   *)
(* lines 468-477).  The three clients share their fate.  One initRedis     *)
(* call at most is in flight (isConnecting); initCaller tells who awaits   *)
(* it.  Its awaits, quit, connect and ping, are one step with two          *)
(* outcomes.                                                               *)
(***************************************************************************)
CallIds == 1..MaxCalls

\* A call of executeRedisCommand not made yet, and the call's history:
\* unready: the client was not ready when the call was made; inits: the
\* connection attempts it started; bodyRuns: the times it ran operation().
NewCall == [pc |-> "idle", unready |-> FALSE, inits |-> 0, bodyRuns |-> 0, gen |-> 0]

\* initRedis from connect to its return (lines 507-550): new clients are
\* stored and the count of attempts is reset.
InitRedisResolves ==
    /\ client' = "ready"
    /\ clientGen' = clientGen + 1
    /\ reconnectAttempts' = 0
    /\ isConnecting' = FALSE
    /\ initCaller' = NoCaller

\* operation() starts (lines 589-592 and the like): it throws 'Redis not
\* initialized' unless the client is ready, and else sends its command.
BodyStarts(call, state, gen) ==
    [call EXCEPT !.pc = IF state = "ready" THEN "body" ELSE "failed",
                 !.bodyRuns = @ + 1,
                 !.gen = gen]

(***************************************************************************)
(* The initRedis call in flight succeeds.  The caller resumes: a store     *)
(* operation runs its operation() (line 574, or line 581 after a           *)
(* ClientClosedError); initRedisConnection is RedisReady above.            *)
(***************************************************************************)
InitRedisSucceeds ==
    /\ ~exited
    /\ isConnecting
    /\ initCaller.kind # "startup"
    /\ InitRedisResolves
    /\ calls' = IF initCaller.kind = "call"
                THEN [calls EXCEPT ![initCaller.id] =
                         BodyStarts(@, "ready", clientGen + 1)]
                ELSE calls
    /\ UNCHANGED <<timeVars, sockets, activeConnections, activeChatSessions,
                   procVars, retryTimers, subscribedGen, notes, msgVars,
                   storeVars>>

(***************************************************************************)
(* The initRedis call in flight fails (lines 551-567): below the ceiling a *)
(* retry is scheduled, and the error is thrown to the caller.  A store     *)
(* operation rethrows it (line 583: it is no ClientClosedError);           *)
(* initRedisConnection logs it and leaves redisInitialized false (lines    *)
(* 28-32).                                                                 *)
(***************************************************************************)
InitRedisFails ==
    /\ ~exited
    /\ isConnecting
    /\ isConnecting' = FALSE
    /\ initCaller' = NoCaller
    /\ retryTimers' = IF reconnectAttempts < MAX_RECONNECT_ATTEMPTS
                      THEN retryTimers + 1 ELSE retryTimers
    /\ calls' = IF initCaller.kind = "call"
                THEN [calls EXCEPT ![initCaller.id].pc = "failed"]
                ELSE calls
    /\ UNCHANGED <<timeVars, sockets, activeConnections, activeChatSessions,
                   procVars, client, clientGen, reconnectAttempts,
                   subscribedGen, notes, msgVars, storeVars>>

\* The timer of lines 559-561 fires and calls initRedis, which returns at
\* once when an attempt is in flight (lines 449-452).
RetryFires ==
    /\ ~exited
    /\ retryTimers > 0
    /\ retryTimers' = retryTimers - 1
    /\ initRedis(Caller("timer", 0))
    /\ UNCHANGED <<timeVars, sockets, activeConnections, activeChatSessions,
                   procVars, clientGen,
                   calls, subscribedGen, notes, msgVars, storeVars>>

\* The connection of the stored clients drops: isReady becomes false.
ConnectionLost ==
    /\ ~exited
    /\ client = "ready"
    /\ client' = "lost"
    /\ UNCHANGED <<timeVars, sockets, activeConnections, activeChatSessions,
                   procVars, clientGen, isConnecting, reconnectAttempts,
                   retryTimers, initCaller, calls, subscribedGen, notes,
                   msgVars, storeVars>>

(***************************************************************************)
(* A store operation is invoked: executeRedisCommand (lines 571-574) runs  *)
(* ensureRedisConnection (lines 433-445).  With an attempt in flight the   *)
(* call sleeps one second; with no ready client it calls initRedis and     *)
(* awaits it; otherwise it runs operation().  Calls are numbered in the    *)
(* order they are made.                                                    *)
(***************************************************************************)
ExecuteRedisCommand(c) ==
    /\ ~exited
    /\ calls[c].pc = "idle"
    /\ \A d \in CallIds : d < c => calls[d].pc # "idle"
    /\ LET call == [calls[c] EXCEPT !.unready = (client # "ready")]
       IN  IF isConnecting
           THEN /\ calls' = [calls EXCEPT ![c] = [call EXCEPT !.pc = "wait"]]
                /\ UNCHANGED <<isConnecting, reconnectAttempts, client,
                               initCaller>>
           ELSE IF client # "ready"
           THEN /\ calls' = [calls EXCEPT ![c] =
                                [call EXCEPT !.pc = "init", !.inits = @ + 1]]
                /\ InitRedisBegins(Caller("call", c))
           ELSE /\ calls' = [calls EXCEPT ![c] = BodyStarts(call, client, clientGen)]
                /\ UNCHANGED <<isConnecting, reconnectAttempts, client,
                               initCaller>>
    /\ UNCHANGED <<timeVars, sockets, activeConnections, activeChatSessions,
                   procVars, clientGen,
                   retryTimers, subscribedGen, notes, msgVars, storeVars>>

\* The second of ensureRedisConnection's wait is over (lines 437-438):
\* the call runs operation(), whatever became of the attempt.
EnsureWaitOver(c) ==
    /\ ~exited
    /\ calls[c].pc = "wait"
    /\ calls' = [calls EXCEPT ![c] = BodyStarts(@, client, clientGen)]
    /\ UNCHANGED <<timeVars, sockets, activeConnections, activeChatSessions,
                   procVars, client, clientGen, isConnecting,
                   reconnectAttempts, retryTimers, initCaller, subscribedGen,
                   notes, msgVars, storeVars>>

(***************************************************************************)
(* The command of a running operation() is answered.  The commands are     *)
(* bound to the clients that were stored when the operation started (lines *)
(* 519-532): answered by those clients the call returns; if the connection *)
(* has dropped the command is rejected and the call rethrows (line 583);   *)
(* if initRedis has quit those clients in the meantime the command throws  *)
(* a ClientClosedError, and the first time the call calls initRedis (line  *)
(* 579, which returns at once if an attempt is in flight) and runs         *)
(* operation() again (line 581).                                           *)
(***************************************************************************)
CommandAnswered(c) ==
    /\ ~exited
    /\ calls[c].pc = "body"
    /\ LET call == calls[c]
           closed == call.gen # clientGen \/ client = "closed"
       IN  IF ~closed
           THEN /\ calls' = [calls EXCEPT ![c].pc =
                                IF client = "ready" THEN "ok" ELSE "failed"]
                /\ UNCHANGED <<isConnecting, reconnectAttempts, client,
                               initCaller>>
           ELSE IF call.bodyRuns > 1
           THEN /\ calls' = [calls EXCEPT ![c].pc = "failed"]
                /\ UNCHANGED <<isConnecting, reconnectAttempts, client,
                               initCaller>>
           ELSE /\ calls' = IF isConnecting
                           THEN [calls EXCEPT ![c] =
                                    BodyStarts(@, client, clientGen)]
                           ELSE [calls EXCEPT ![c].pc = "init",
                                              ![c].inits = @ + 1]
                /\ initRedis(Caller("call", c))
    /\ UNCHANGED <<timeVars, sockets, activeConnections, activeChatSessions,
                   procVars, clientGen,
                   retryTimers, subscribedGen, notes, msgVars, storeVars>>

(***************************************************************************)
(* subscribeToUserUpdates(callback) (userService.js:726-756): it throws    *)
(* unless the stored subscriber is ready; otherwise the callback is        *)
(* subscribed on that subscriber.                                          *)
(***************************************************************************)
SubscribeToUserUpdates ==
    /\ ~exited
    /\ ~subscribed
    /\ IF client = "ready"
       THEN /\ subscribed' = TRUE
            /\ subscribedGen' = clientGen
       ELSE UNCHANGED <<subscribed, subscribedGen>>
    /\ UNCHANGED <<timeVars, sockets, activeConnections, activeChatSessions,
                   redisInitialized, exited, subscriptionRetry, client,
                   clientGen, isConnecting, reconnectAttempts, retryTimers,
                   initCaller, calls, notes, msgVars, storeVars>>

\* The handle subscribeToUserUpdates returned is called (lines 744-751).
Unsubscribe ==
    /\ ~exited
    /\ subscribed
    /\ subscribed' = FALSE
    /\ subscribedGen' = 0
    /\ UNCHANGED <<timeVars, sockets, activeConnections, activeChatSessions,
                   redisInitialized, exited, subscriptionRetry, client,
                   clientGen, isConnecting, reconnectAttempts, retryTimers,
                   initCaller, calls, notes, msgVars, storeVars>>

(***************************************************************************)
(* A notification of the given type is published on user:updates, as       *)
(* storeUserPosition and removeUserPosition do through the stored          *)
(* publisher (lines 613, 779).  The store hands it to the subscribers of   *)
(* the channel: to the callback if the subscriber it was subscribed on is  *)
(* the stored one.  notes records whether a subscription was in force      *)
(* (subscribed and not unsubscribed) and whether the callback got it.      *)
(***************************************************************************)
NotificationTypes == {"position", "removal"}

PublishNotification(type) ==
    /\ ~exited
    /\ client = "ready"
    /\ Len(notes) < MaxNotes
    /\ notes' = Append(notes,
                       [type |-> type,
                        inForce |-> subscribed,
                        delivered |-> Publish(<<>>, NoUser, type) # <<>>])
    /\ UNCHANGED <<timeVars, sockets, activeConnections, activeChatSessions,
                   procVars, client, clientGen, isConnecting,
                   reconnectAttempts, retryTimers, initCaller, calls,
                   subscribedGen, msgVars, storeVars>>

(***************************************************************************)
(* initRedisConnection (socketManager.js:13-35), called by setupSocketIO   *)
(* at line 49, gets its store connection: redisInitialized becomes true.   *)
(***************************************************************************)
RedisReady ==
    /\ ~exited
    /\ ~redisInitialized
    /\ isConnecting
    /\ initCaller = Caller("startup", 0)
    /\ redisInitialized' = TRUE
    /\ InitRedisResolves
    /\ UNCHANGED <<timeVars, sockets, activeConnections, activeChatSessions,
                   exited, subscribed, subscriptionRetry, retryTimers, calls,
                   subscribedGen, notes, msgVars, storeVars>>

(***************************************************************************)
(* The timer of lines 101-107 fires, five seconds after setupSocketIO      *)
(* found the store not initialised: the subscription is set up if the      *)
(* store is initialised by now (subscribeToUserUpdates, userService.js:726, *)
(* throws unless the subscriber is ready), and is given up otherwise.      *)
(***************************************************************************)
SubscriptionRetry ==
    /\ ~exited
    /\ subscriptionRetry
    /\ subscriptionRetry' = FALSE
    /\ subscribed' = (redisInitialized /\ client = "ready")
    /\ subscribedGen' = IF redisInitialized /\ client = "ready"
                        THEN clientGen ELSE subscribedGen
    /\ UNCHANGED <<timeVars, sockets, activeConnections, activeChatSessions,
                   redisInitialized, exited, msgVars, client, clientGen,
                   isConnecting, reconnectAttempts, retryTimers, initCaller,
                   calls, notes, storeVars>>

(***************************************************************************)
(* The process after setupSocketIO, with the store never initialised       *)
(* (initRedisConnection failed): presence is off, messaging is served.     *)
(***************************************************************************)
InitCommon ==
    /\ now = 0
    /\ nextSweep = SWEEP_INTERVAL
    /\ sockets = [s \in SocketIds |-> NewSocket]
    /\ exited = FALSE
    /\ activeConnections = EmptyMap
    /\ activeChatSessions = EmptyMap
    /\ pendingMessages = <<>>
    /\ timers = <<>>
    /\ geoIndex = EmptyMap
    /\ positionKeys = EmptyMap
    /\ userDetails = EmptyMap
    /\ mainQueue = <<>>
    /\ pubQueue = <<>>
    /\ subQueue = <<>>
    /\ updates = 0
    /\ stops = 0
    /\ tasks = EmptyMap
    /\ usersUpdates = <<>>
    /\ emitted = <<>>
    /\ sends = <<>>
    /\ seen = 0
    /\ retryTimers = 0
    /\ calls = [c \in CallIds |-> NewCall]
    /\ notes = <<>>

\* The store connection of a process whose attempts have all failed.
ConnOff ==
    /\ client = "null"
    /\ clientGen = 0
    /\ isConnecting = FALSE
    /\ reconnectAttempts = MAX_RECONNECT_ATTEMPTS
    /\ initCaller = NoCaller
    /\ subscribedGen = 0

\* The store connection made before setupSocketIO ran (line 18), and the
\* subscription of lines 96-97.
ConnReady ==
    /\ client = "ready"
    /\ clientGen = 1
    /\ isConnecting = FALSE
    /\ reconnectAttempts = 0
    /\ initCaller = NoCaller
    /\ subscribedGen = 1

\* The store connection being made by initRedisConnection's initRedis call.
ConnStarting ==
    /\ client = "null"
    /\ clientGen = 0
    /\ isConnecting = TRUE
    /\ reconnectAttempts = 1
    /\ initCaller = Caller("startup", 0)
    /\ subscribedGen = 0

Init ==
    /\ InitCommon
    /\ redisInitialized = FALSE
    /\ subscribed = FALSE
    /\ subscriptionRetry = FALSE
    /\ ConnOff

\* The payloads of well-formed sends to another user.
UserRecipients ==
    {JsNumber(u) : u \in Users} \cup {JsString(<<DigitChar(u)>>) : u \in Users}
TextMessages == {JsString(<<"a">>)}

\* Clients with good credentials send well-formed messages, each under a
\* message id of its own (data model: messageId is unique), while time passes.
Next ==
    \/ \E s \in SocketIds : Connect(s, GoodHandshakes)
    \/ \E s \in SocketIds :
          SendMessage(s, Payloads(UserRecipients, TextMessages, FreshClientIds),
                      FreshGeneratedIds)
    \/ \E s \in SocketIds : OnDisconnect(s)
    \/ \E i \in 1..MaxSends : RetryFire(i)
    \/ Sweep
    \/ ClockTick

Spec == Init /\ [][Next]_vars

(***************************************************************************)
(* What was emitted about one message, in the order of emission.           *)
(***************************************************************************)
NewMessagesIn(events, id) ==
    SelectSeq(events, LAMBDA e : e.event = "new_message" /\ e.messageId = id)
StatusesIn(events, id) ==
    SelectSeq(events, LAMBDA e : e.event = "message_status" /\ e.messageId = id)
StatusNames(events, id) ==
    [i \in DOMAIN StatusesIn(events, id) |-> StatusesIn(events, id)[i].status]
TimerSet(id) == \E j \in DOMAIN timers : timers[j].messageId = id

\* The events a step adds to the history.
Added == SubSeq(emitted', Len(emitted) + 1, Len(emitted'))

\* The socket s shakes hands in this step and is registered for user u.
Connects(s, u) ==
    /\ sockets[s].st = "new"
    /\ sockets'[s].st \in {"ready", "awaiting"}
    /\ sockets'[s].userId = u

\* C1: a send handled while the recipient R (another user) is in the
\* registry emits exactly one new_message, with status delivered, to R's
\* registered handle and one message_status 'delivered' to the sending
\* socket, stores no PendingMessage and sets no retry timer; whatever happens
\* afterwards, no second new_message (and no other status) follows for it.
C1_OnlineSendDeliveredOnce ==
    \A i \in DOMAIN sends :
        sends[i].class = "online" =>
            LET m == sends[i]
                got == NewMessagesIn(emitted, m.messageId)
            IN  /\ Len(got) = 1
                /\ got[1].to = m.recipientSocket
                /\ got[1].status = "delivered"
                /\ got[1].senderId = m.senderId
                /\ got[1].recipientId = m.targetId
                /\ StatusesIn(emitted, m.messageId)
                       = <<MessageStatus(m.socket, m.messageId, "delivered")>>
                /\ ~PendingHas(pendingMessages, m.messageId)
                /\ ~TimerSet(m.messageId)

\* An online send after which its recipient's socket closed and the
\* recipient came back on another socket.
C1_Witness ==
    \E i \in DOMAIN sends :
        /\ sends[i].class = "online"
        /\ ~sockets[sends[i].recipientSocket].open
        /\ Has(activeConnections, sends[i].targetId)
        /\ activeConnections[sends[i].targetId] # sends[i].recipientSocket

\* C2: when the recipient R of a pending message m1 connects before m1's
\* expiresAt, that step emits a new_message for m1 with status delivered to
\* R's new socket, the only one ever emitted for m1; the sender, if it is in
\* the registry, gets message_status 'delivered' for m1 on its registered
\* handle; and m1 leaves the pending table.
C2_DeliveredOnConnect ==
    [][\A s \in SocketIds, u \in Users :
          Connects(s, u) =>
              \A k \in DOMAIN pendingMessages :
                  LET m1 == pendingMessages[k]
                  IN  (m1.recipientId = u /\ now <= m1.expiresAt) =>
                         /\ NewMessagesIn(emitted', m1.messageId)
                                = <<NewMessage(s, m1, "delivered")>>
                         /\ NewMessagesIn(Added, m1.messageId)
                                = <<NewMessage(s, m1, "delivered")>>
                         /\ Has(activeConnections, m1.senderId) =>
                                StatusesIn(Added, m1.messageId)
                                    = <<MessageStatus(activeConnections[m1.senderId],
                                                      m1.messageId, "delivered")>>
                         /\ ~PendingHas(pendingMessages', m1.messageId)]_vars

\* A message sent to an offline recipient was delivered when the recipient
\* connected, the sender was told, and a retry timer of that send ran later.
C2_Witness ==
    \E i \in DOMAIN sends :
        /\ sends[i].class = "offline"
        /\ Len(NewMessagesIn(emitted, sends[i].messageId)) = 1
        /\ StatusNames(emitted, sends[i].messageId) = <<"pending", "delivered">>
        /\ ~PendingHas(pendingMessages, sends[i].messageId)
        /\ \E j \in DOMAIN timers :
              timers[j].messageId = sends[i].messageId /\ timers[j].fired >= 1

\* C3: a PendingMessage whose expiresAt has passed is never emitted to the
\* recipient as new_message, neither by a retry timer nor by connect-time
\* delivery: the outcome of a send whose recipient does not connect within
\* five minutes is 'failed'.
C3_ExpiredNeverDelivered ==
    [][\A k \in DOMAIN pendingMessages :
          now > pendingMessages[k].expiresAt =>
              /\ NewMessagesIn(Added, pendingMessages[k].messageId) = <<>>
              /\ \A j \in DOMAIN StatusesIn(Added, pendingMessages[k].messageId) :
                    StatusesIn(Added, pendingMessages[k].messageId)[j].status
                        # "delivered"]_vars

\* C5: the statuses emitted about one message are 'pending' and then at most
\* one of 'delivered' and 'failed' (a send to an online recipient is
\* 'delivered' at once): never both terminal statuses, none of them twice,
\* and nothing after a terminal status.
C5_StatusSequences ==
    \A i \in DOMAIN sends :
        LET names == StatusNames(emitted, sends[i].messageId)
        IN  /\ sends[i].class = "offline" =>
                  names \in {<<"pending">>, <<"pending", "delivered">>,
                             <<"pending", "failed">>}
            /\ sends[i].class = "online" => names = <<"delivered">>

\* One message was delivered after being pending, another one failed, and
\* every retry timer of both has run.
C5_Witness ==
    /\ timers = <<>>
    /\ \E i, j \in DOMAIN sends :
          /\ StatusNames(emitted, sends[i].messageId) = <<"pending", "delivered">>
          /\ StatusNames(emitted, sends[j].messageId) = <<"pending", "failed">>

\* A message overdue in the pending table between two sweeps.
C3_Witness ==
    \E k \in DOMAIN pendingMessages :
        now > pendingMessages[k].expiresAt /\ nextSweep > now

(***************************************************************************)
(* The same system with its timers running: the event loop runs a timer    *)
(* callback that is due, and the clock goes on.                            *)
(***************************************************************************)
Fairness ==
    /\ WF_vars(ClockTick)
    /\ WF_vars(Sweep)
    /\ \A i \in 1..MaxSends : WF_vars(RetryFire(i))

\* The steps of Spec, with the last send left unused.
FairNext ==
    \/ \E s \in SocketIds : Connect(s, GoodHandshakes)
    \/ \E s \in SocketIds :
          /\ Len(sends) + 1 < MaxSends
          /\ SendMessage(s, Payloads(UserRecipients, TextMessages, FreshClientIds),
                         FreshGeneratedIds)
    \/ \E s \in SocketIds : OnDisconnect(s)
    \/ \E i \in 1..MaxSends : RetryFire(i)
    \/ Sweep
    \/ ClockTick

FairSpec == Init /\ [][FairNext]_vars /\ Fairness

Accepted(id) ==
    \E i \in DOMAIN sends :
        sends[i].messageId = id /\ sends[i].class \in {"online", "offline"}
SenderRegistered(id) ==
    \E i \in DOMAIN sends :
        sends[i].messageId = id /\ Has(activeConnections, sends[i].senderId)
TerminalStatus(id) ==
    \E j \in DOMAIN StatusesIn(emitted, id) :
        StatusesIn(emitted, id)[j].status \in {"delivered", "failed"}

\* C4: every accepted send is followed by a terminal message_status
\* ('delivered' or 'failed') for it unless its sender leaves the registry
\* first, and with the sweep timer running no message stays in the pending
\* table forever.
C4_EventuallyTerminal ==
    \A id \in ClientMessageIds :
        /\ [](\A i \in DOMAIN sends :
                 (sends[i].messageId = id /\ sends[i].class = "online")
                     => TerminalStatus(id))
        /\ (Accepted(id) /\ PendingHas(pendingMessages, id))
               ~> (TerminalStatus(id) \/ ~SenderRegistered(id))
        /\ PendingHas(pendingMessages, id) ~> ~PendingHas(pendingMessages, id)

\* A message that waited out its five minutes with the sender registered and
\* was reported 'failed' by the sweep.
C4_Witness ==
    \E i \in DOMAIN sends :
        /\ sends[i].class = "offline"
        /\ Has(activeConnections, sends[i].senderId)
        /\ StatusNames(emitted, sends[i].messageId) = <<"pending", "failed">>

(***************************************************************************)
(* The same server with clients of every kind: handshakes with and without *)
(* good credentials, send_message payloads well-formed and not, with and   *)
(* without a messageId.  The clock stands still.                           *)
(***************************************************************************)
NextInputs ==
    \/ \E s \in SocketIds : Connect(s, HandshakeInputs)
    \/ \E s \in SocketIds :
          SendMessage(s, Payloads(RecipientInputs, MessageInputs,
                                  FreshClientIds \cup {NoId}) \cup {NoPayload},
                      FreshGeneratedIds)
    \/ \E s \in SocketIds : OnDisconnect(s)

SpecInputs == Init /\ [][NextInputs]_vars

C7_InvalidSendRejected ==
    [][\A s \in SocketIds :
          (/\ Len(sends') = Len(sends) + 1
           /\ sends'[Len(sends')].socket = s
           /\ sends'[Len(sends')].class \in {"missing", "empty", "unparsable"})
          => /\ Added = <<MessageStatus(s, sends'[Len(sends')].messageId, "error")>>
             /\ activeConnections' = activeConnections
             /\ activeChatSessions' = activeChatSessions
             /\ pendingMessages' = pendingMessages
             /\ timers' = timers
             /\ sockets' = sockets
             /\ sockets'[s].open]_vars

\* A send_message without recipientId made the process exit while another
\* user was connected.
C7_Witness ==
    /\ exited
    /\ sends # <<>>
    /\ LET m == sends[Len(sends)]
       IN  /\ m.class = "missing"
           /\ \E u \in DOMAIN activeConnections : u # m.senderId

InitStore ==
    /\ InitCommon
    /\ redisInitialized = TRUE
    /\ subscribed = TRUE
    /\ subscriptionRetry = FALSE
    /\ ConnReady

StoreSockets == 1..MaxStoreSockets

NextStore ==
    \/ \E s \in StoreSockets : Connect(s, GoodHandshakes)
    \/ \E s \in StoreSockets : ConnectionResume(s)
    \/ \E s \in StoreSockets : TransportClose(s)
    \/ \E s \in StoreSockets : UpdateLocation(s, LocationInputs)
    \/ \E k \in DOMAIN tasks : UpdateLocationStep(k)
    \/ \E s \in StoreSockets : OnDisconnect(s)
    \/ \E k \in DOMAIN tasks : DisconnectStep(k)
    \/ \E k \in DOMAIN tasks : BroadcastStep(k)
    \/ OnUserUpdate
    \/ \E u \in Users : KeyExpires(u)

SpecStore == InitStore /\ [][NextStore]_vars

HandlersOver(s) ==
    /\ sockets[s].st \in {"ready", "closed"}
    /\ ~sockets[s].open

Registered(s) ==
    \E u \in Users : Has(activeConnections, u) /\ activeConnections[u] = s

\* C9: a socket that was registered, whose transport has closed and whose
\* connection handler has returned, is not the value of a registry entry
\* (the disconnect handler, if it was installed in time, has run its
\* synchronous part, which deletes the entry).
C9_ClosedHandleUnregistered ==
    \A s \in SocketIds : HandlersOver(s) => ~Registered(s)

\* The transport closed while the connection handler was at its await; the
\* handler has returned, no handler of the server is pending, and the
\* registry still points at the closed handle.
C9_Witness ==
    \E s \in SocketIds :
        /\ sockets[s].st = "ready"
        /\ ~sockets[s].open
        /\ Registered(s)
        /\ tasks = EmptyMap
        /\ \A r \in SocketIds : r # s => sockets[r].st = "new"

DisconnectsOf(u) == {k \in DOMAIN tasks : k.kind = "disconnect" /\ tasks[k].userId = u}

UpdatesOf(u) == {k \in DOMAIN tasks : k.kind = "update" /\ tasks[k].userId = u}

\* Every disconnect handler of u has finished and u has no open transport.
DisconnectHandled(u) ==
    /\ \E s \in SocketIds : sockets[s].userId = u /\ sockets[s].st = "closed"
    /\ \A s \in SocketIds : sockets[s].userId = u => ~sockets[s].open
    /\ DisconnectsOf(u) = {}

\* C10: once the disconnect handling of user u has finished and u has no
\* open connection, the store holds neither the position key nor the
\* geospatial member of u, whatever update_location handlers of u were or
\* still are in flight.
C10_NoPositionAfterDisconnect ==
    \A u \in Users :
        DisconnectHandled(u) => ~Has(positionKeys, u) /\ ~Has(geoIndex, u)

\* The disconnect of u was handled to its end while an update_location
\* handler of u, started before it, is still waiting for a reply.
C10_Witness ==
    \E u \in Users : DisconnectHandled(u) /\ UpdatesOf(u) # {}

(***************************************************************************)
(* The server with the store off, serving messages and read receipts:      *)
(* clients with good credentials connect (a user possibly on several       *)
(* sockets), send well-formed messages, report messages seen, and leave.   *)
(***************************************************************************)
SeenSenders ==
    {JsNumber(u) : u \in Users} \cup {JsString(<<DigitChar(u)>>) : u \in Users}
    \cup {JsUndefined, JsString(<<"x">>)}

NextSeen ==
    \/ \E s \in SocketIds : Connect(s, GoodHandshakes)
    \/ \E s \in SocketIds :
          SendMessage(s, Payloads(UserRecipients, TextMessages, FreshClientIds),
                      FreshGeneratedIds)
    \/ \E s \in SocketIds :
          MessageSeen(s, SeenInputs(ClientMessageIds \cup {NoId}, SeenSenders))
    \/ \E s \in SocketIds : OnDisconnect(s)

SpecSeen == Init /\ [][NextSeen]_vars

\* The user of a socket that has shaken hands.
UserOf(s) == sockets[s].userId

\* C11: when a connection of a user already in the registry is registered,
\* the entry is overwritten with the new handle and the prior transport
\* stays open; and every event a step emits to a socket of a user who has a
\* registry entry goes to the handle of that entry.
C11_EventsToNewHandle ==
    [][/\ \A s \in SocketIds, u \in Users :
             (Connects(s, u) /\ Has(activeConnections, u)) =>
                 /\ activeConnections'[u] = s
                 /\ sockets'[activeConnections[u]].open
                       = sockets[activeConnections[u]].open
       /\ \A i \in DOMAIN Added :
             LET to == Added[i].to
             IN  (to # NoSocket /\ Has(activeConnections', UserOf(to))) =>
                     activeConnections'[UserOf(to)] = to]_vars

\* A user is registered on a newer socket, and an event has gone to the
\* older socket of that user, which is still open.
C11_Witness ==
    \E i \in DOMAIN emitted :
        LET to == emitted[i].to
        IN  /\ to # NoSocket
            /\ sockets[to].open
            /\ Has(activeConnections, UserOf(to))
            /\ activeConnections[UserOf(to)] > to

\* getUserActiveSessions / hasActiveChatSession (userService.js:334-349).
InSessionsOf(sessions, a, b) == Has(sessions, a) /\ b \in sessions[a]

\* The 'disconnect' handler of socket r runs in this step.
Disconnects(r) == sockets[r].st = "ready" /\ sockets'[r].st = "closed"

\* The step handles a send_message that is accepted, from a to b.
AcceptedSend(a, b) ==
    /\ Len(sends') = Len(sends) + 1
    /\ sends'[Len(sends')].class \in {"online", "offline"}
    /\ sends'[Len(sends')].senderId = a
    /\ sends'[Len(sends')].targetId = b

\* C13: an accepted send_message from a to b, b online or not, leaves the
\* edge between a and b in the tracker; and a step removes an edge between a
\* and b only if it is the disconnect of a socket of a or of b that the
\* registry holds as that user's current connection.
C13_EdgeUntilCurrentDisconnect ==
    [][\A a, b \in Users :
          /\ AcceptedSend(a, b) =>
                /\ a \in activeChatSessions'[b]
                /\ b \in activeChatSessions'[a]
          /\ (/\ Has(activeChatSessions, a)
              /\ b \in activeChatSessions[a]
              /\ ~(Has(activeChatSessions', a) /\ b \in activeChatSessions'[a])) =>
                \E r \in SocketIds :
                    /\ Disconnects(r)
                    /\ UserOf(r) \in {a, b}
                    /\ Has(activeConnections, UserOf(r))
                    /\ activeConnections[UserOf(r)] = r]_vars

\* The edge between two users is gone although both are still registered on
\* open sockets: a superseded socket of one of them has disconnected.
C13_Witness ==
    \E i \in DOMAIN sends :
        LET a == sends[i].senderId
            b == sends[i].targetId
        IN  /\ sends[i].class = "online"
            /\ ~InSessionsOf(activeChatSessions, a, b)
            /\ \A u \in {a, b} : /\ Has(activeConnections, u)
                                 /\ sockets[activeConnections[u]].open

(***************************************************************************)
(* chatService's session tracker (userService.js:264, 315-384) on its own: *)
(* any sequence of trackChatSession, endChatSession and                    *)
(* cleanupUserSessions calls, with any user identities.                    *)
(***************************************************************************)
ChatUsers == 1..MaxChatUsers

TrackChat(a, b) ==
    /\ activeChatSessions' = trackChatSession(activeChatSessions, a, b)
    /\ UNCHANGED <<timeVars, sockets, activeConnections, procVars, connVars, msgVars,
                   storeVars>>

EndChat(a, b) ==
    /\ activeChatSessions' = endChatSession(activeChatSessions, a, b)
    /\ UNCHANGED <<timeVars, sockets, activeConnections, procVars, connVars, msgVars,
                   storeVars>>

CleanupChat(a) ==
    /\ activeChatSessions' = cleanupUserSessions(activeChatSessions, a)
    /\ UNCHANGED <<timeVars, sockets, activeConnections, procVars, connVars, msgVars,
                   storeVars>>

NextChat ==
    \/ \E a, b \in ChatUsers : TrackChat(a, b)
    \/ \E a, b \in ChatUsers : EndChat(a, b)
    \/ \E a \in ChatUsers : CleanupChat(a)

SpecChat == Init /\ [][NextChat]_vars

\* C12: after every call the relation is symmetric (b is among a's sessions
\* iff a is among b's); trackChatSession(a, b) makes both memberships true
\* and a second call changes nothing; cleanupUserSessions(a) leaves a with
\* no set of its own and in no other user's set.
C12_SessionsSymmetric ==
    [][/\ \A a, b \in ChatUsers :
             InSessionsOf(activeChatSessions', a, b)
                 <=> InSessionsOf(activeChatSessions', b, a)
       /\ \A a, b \in ChatUsers :
             TrackChat(a, b) =>
                 /\ InSessionsOf(activeChatSessions', a, b)
                 /\ InSessionsOf(activeChatSessions', b, a)
                 /\ trackChatSession(activeChatSessions', a, b) = activeChatSessions'
       /\ \A a \in ChatUsers :
             CleanupChat(a) =>
                 /\ ~Has(activeChatSessions', a)
                 /\ \A k \in DOMAIN activeChatSessions' :
                       a \notin activeChatSessions'[k]]_vars

\* A user who was in session with two others has been cleaned up: the
\* user's set is gone, one partner is left with an empty set and the other
\* with the session it has with a fourth user.
C12_Witness ==
    \E a, b, c, d \in ChatUsers :
        /\ Cardinality({a, b, c, d}) = 4
        /\ ~Has(activeChatSessions, a)
        /\ Has(activeChatSessions, b) /\ activeChatSessions[b] = {}
        /\ Has(activeChatSessions, c) /\ activeChatSessions[c] = {d}
        /\ Has(activeChatSessions, d) /\ activeChatSessions[d] = {c}

(***************************************************************************)
(* The server from setupSocketIO on, its store connection not yet made:    *)
(* initRedisConnection is waiting for initRedis, and the subscription      *)
(* waits for the retry timer.  Clients connect, report positions and       *)
(* leave, before and after the store is ready.                             *)
(***************************************************************************)
InitLate ==
    /\ InitCommon
    /\ redisInitialized = FALSE
    /\ subscribed = FALSE
    /\ subscriptionRetry = TRUE
    /\ ConnStarting

ValidLocations == {d \in LocationInputs : d.present /\ d.latitude # 0 /\ d.longitude # 0}

NextLate ==
    \/ RedisReady
    \/ SubscriptionRetry
    \/ \E s \in StoreSockets : Connect(s, GoodHandshakes)
    \/ \E s \in StoreSockets : ConnectionResume(s)
    \/ \E s \in StoreSockets : UpdateLocation(s, ValidLocations)
    \/ \E k \in DOMAIN tasks : UpdateLocationStep(k)
    \/ \E s \in StoreSockets : OnDisconnect(s)
    \/ \E k \in DOMAIN tasks : DisconnectStep(k)
    \/ \E k \in DOMAIN tasks : BroadcastStep(k)
    \/ OnUserUpdate

SpecLate == InitLate /\ [][NextLate]_vars

\* The broadcast k emits its users_update in this step.
Emits(k) ==
    /\ k \in DOMAIN tasks
    /\ k.kind = "broadcast"
    /\ k \notin DOMAIN tasks'
    /\ mainQueue # <<>>
    /\ Head(mainQueue) = k

\* The identities a users_update lists.
Listed(snapshot) == {e.id : e \in snapshot}

\* C14: every identity a users_update lists was a key of the registry when
\* the broadcast started, a position of the user was found in the store
\* (the position key at the start, or the geospatial member), and a detail
\* record of the user exists in the store.
C14_ListedHaveDetails ==
    [][\A k \in DOMAIN tasks :
          Emits(k) =>
              \A u \in Listed(usersUpdates'[1]) :
                  /\ u \in DOMAIN tasks[k].chains
                  /\ tasks[k].chains[u].pos # <<>> \/ Has(geoIndex, u)
                  /\ Has(userDetails, u)]_vars

\* A users_update lists a user for whom the store holds no detail record.
C14_Witness ==
    /\ usersUpdates # <<>>
    /\ \E u \in Listed(usersUpdates[1]) : ~Has(userDetails, u)

\* C15: a user whose position key was absent when a broadcast started (the
\* GET of the user's chain answered null) and who has no update_location
\* in flight is not listed in the users_update of that broadcast.
C15_ExpiredNotListed ==
    [][\A k \in DOMAIN tasks :
          Emits(k) =>
              \A u \in DOMAIN tasks[k].chains :
                  (tasks[k].chains[u].pos = <<>> /\ UpdatesOf(u) = {}) =>
                      u \notin Listed(usersUpdates'[1])]_vars

\* The update_location payloads that carry two numeric coordinates.
NumericLocations == {d \in LocationInputs : d.present}

\* C16: with the store on, the handling of an update_location that carries
\* numeric coordinates, zero included, stores exactly those coordinates for
\* the user (the GEOADD of the handler's first command, which a getPosition
\* sent afterwards reads when no position key is present).
C16_UpdateStoresCoordinates ==
    [][\A s \in StoreSockets, d \in NumericLocations :
          UpdateLocation(s, {d}) =>
              /\ Has(geoIndex', UserOf(s))
              /\ geoIndex'[UserOf(s)] = [longitude |-> d.longitude,
                                         latitude |-> d.latitude]]_vars

\* An update_location with a zero coordinate was handled and the store
\* holds no position of any user.
C16_Witness ==
    /\ updates > 0
    /\ tasks = EmptyMap
    /\ geoIndex = EmptyMap
    /\ positionKeys = EmptyMap
    /\ \E s \in StoreSockets : sockets[s].st = "ready" /\ sockets[s].open

\* C18: a users_update lists no user who is absent from the registry when
\* it is emitted: once the disconnect handler has removed a user, no
\* snapshot emitted afterwards lists that user, whenever its broadcast
\* started.
C18_EmittedExcludeDisconnected ==
    [][\A k \in DOMAIN tasks :
          Emits(k) =>
              \A u \in Listed(usersUpdates'[1]) : Has(activeConnections, u)]_vars

\* The last users_update lists a user whose only socket has been through
\* its disconnect handler, while another user is still registered.
C18_Witness ==
    /\ usersUpdates # <<>>
    /\ \E u \in Listed(usersUpdates[1]) :
          /\ ~Has(activeConnections, u)
          /\ \A s \in SocketIds : UserOf(s) = u => sockets[s].st = "closed"
    /\ activeConnections # EmptyMap

(***************************************************************************)
(* The same server with one client that connects, reports positions and    *)
(* stays.  The store connection is made at some time, the retry timer      *)
(* fires, the store answers every command and delivers every published     *)
(* message, and every reply is handled.                                    *)
(***************************************************************************)
FairSockets == 1..MaxFairSockets

NextLateFair ==
    \/ RedisReady
    \/ SubscriptionRetry
    \/ \E s \in FairSockets : Connect(s, GoodHandshakes)
    \/ \E s \in FairSockets : ConnectionResume(s)
    \/ \E s \in FairSockets : UpdateLocation(s, ValidLocations)
    \/ \E k \in DOMAIN tasks : UpdateLocationStep(k)
    \/ \E k \in DOMAIN tasks : BroadcastStep(k)
    \/ OnUserUpdate

FairnessLate ==
    /\ WF_vars(RedisReady)
    /\ WF_vars(SubscriptionRetry)
    /\ WF_vars(\E s \in FairSockets : ConnectionResume(s))
    /\ WF_vars(\E k \in DOMAIN tasks : UpdateLocationStep(k))
    /\ WF_vars(\E k \in DOMAIN tasks : BroadcastStep(k))
    /\ WF_vars(OnUserUpdate)

FairSpecLate == InitLate /\ [][NextLateFair]_vars /\ FairnessLate

\* An accepted update_location whose handler has yet to publish it.
UpdateInFlight ==
    \E k \in DOMAIN tasks :
        k.kind = "update" /\ tasks[k].pc \in {"geoadd", "set", "expire"}

BroadcastInFlight == \E k \in DOMAIN tasks : k.kind = "broadcast"

\* C17: an accepted update_location of a registered user (its handler is
\* writing the position to the store) is followed by a broadcast, whose
\* users_update goes to all connected clients, however late the store
\* connection was made.
C17_UpdateCausesBroadcast == UpdateInFlight ~> BroadcastInFlight

\* The store became ready after the retry timer had fired, and an accepted
\* update_location has been handled to its end with no subscription.
C17_Witness ==
    /\ redisInitialized
    /\ ~subscribed
    /\ ~subscriptionRetry
    /\ updates > 0
    /\ geoIndex # EmptyMap
    /\ tasks = EmptyMap

(***************************************************************************)
(* The server whose store connection was not made within the five seconds  *)
(* of the retry timer, so that it has no subscription.  Clients connect,   *)
(* report positions, ask to stop sharing and leave, before and after the   *)
(* store is ready.                                                         *)
(***************************************************************************)
InitStop ==
    /\ InitCommon
    /\ redisInitialized = FALSE
    /\ subscribed = FALSE
    /\ subscriptionRetry = FALSE
    /\ ConnStarting

NextStop ==
    \/ RedisReady
    \/ \E s \in StoreSockets : Connect(s, GoodHandshakes)
    \/ \E s \in StoreSockets : ConnectionResume(s)
    \/ \E s \in StoreSockets :
          updates < MaxStopUpdates /\ UpdateLocation(s, ValidLocations)
    \/ \E k \in DOMAIN tasks : UpdateLocationStep(k)
    \/ \E s \in StoreSockets : StopLocationSharing(s)
    \/ \E k \in DOMAIN tasks : StopStep(k)
    \/ \E s \in StoreSockets : OnDisconnect(s)
    \/ \E k \in DOMAIN tasks : DisconnectStep(k)
    \/ \E k \in DOMAIN tasks : BroadcastStep(k)

SpecStop == InitStop /\ [][NextStop]_vars

\* The stop_location_sharing handler of socket s returns in this step:
\* at once when the store is not initialised, else on the reply to its
\* PUBLISH.
StopReturns(s) ==
    \/ stops' = stops + 1 /\ ~redisInitialized /\ StopLocationSharing(s)
    \/ /\ TaskKey("stop", s, 0) \in DOMAIN tasks
       /\ TaskKey("stop", s, 0) \notin DOMAIN tasks'

\* C19: whenever a stop_location_sharing handler returns, the connection
\* that asked is closed and is not the registry's handle of its user,
\* whether or not the store is initialised.
C19_StopClosesConnection ==
    [][\A s \in StoreSockets :
          StopReturns(s) =>
              /\ ~sockets'[s].open
              /\ \/ ~Has(activeConnections', sockets[s].userId)
                 \/ activeConnections'[sockets[s].userId] # s]_vars

\* A stop_location_sharing was handled while the store was not initialised,
\* by a socket that is still open and registered.
C19_Witness ==
    /\ stops > 0
    /\ ~redisInitialized
    /\ \E s \in StoreSockets :
          /\ sockets[s].st = "ready"
          /\ sockets[s].open
          /\ Registered(s)

\* The message_seen payloads that carry a messageId and a senderId.
FullSeenInputs ==
    {data \in SeenInputs(ClientMessageIds, SeenSenders) : ~Falsy(data.senderId)}

\* The events this step emits to a socket of user u.
EmittedTo(u) ==
    {i \in (Len(emitted) + 1)..Len(emitted') : UserOf(emitted'[i].to) = u}

\* The step handles message_seen with payload data on socket s: it relays
\* the receipt to the sender's registered handle, if there is one, and
\* leaves the registry, the session tracker and the pending table alone.
SeenRelays(s, data) ==
    LET sender == parseInt(data.senderId)
    IN  /\ emitted' =
              IF ~sender.nan /\ Has(activeConnections, sender.value)
              THEN Append(emitted,
                          [event |-> "message_seen",
                           to |-> activeConnections[sender.value],
                           messageId |-> data.messageId,
                           seenBy |-> UserOf(s)])
              ELSE emitted
        /\ UNCHANGED <<activeConnections, activeChatSessions, pendingMessages>>

\* C20: a message_seen event with messageId and senderId emits message_seen
\* {messageId, seenBy = viewer} to the sender's registered handle if the
\* sender is in the registry and nothing otherwise; the registry, the
\* session tracker and the pending table are unchanged; and nothing is
\* emitted to the viewer, unless senderId names the viewer itself (then the
\* relay goes to the viewer's own registered handle).
C20_SeenRelayedToSender ==
    [][\A s \in SocketIds : \A data \in FullSeenInputs :
          (seen' = seen + 1 /\ MessageSeen(s, {data})) =>
              /\ SeenRelays(s, data)
              /\ \/ EmittedTo(UserOf(s)) = {}
                 \/ parseInt(data.senderId).value = UserOf(s)]_vars

\* C20 as stated: the same, with nothing emitted to the viewer whatever
\* the senderId.
C20_NothingToViewer ==
    [][\A s \in SocketIds : \A data \in FullSeenInputs :
          (seen' = seen + 1 /\ MessageSeen(s, {data})) =>
              /\ SeenRelays(s, data)
              /\ EmittedTo(UserOf(s)) = {}]_vars

\* A receipt was relayed to the handle of a user other than the viewer.
C20_Witness ==
    /\ seen > 0
    /\ \E i \in DOMAIN emitted :
          /\ emitted[i].event = "message_seen"
          /\ UserOf(emitted[i].to) # emitted[i].seenBy
          /\ Has(activeConnections, UserOf(emitted[i].to))

(***************************************************************************)
(* The store module alone: setupSocketIO has called initRedisConnection,   *)
(* whose initRedis call is in flight; connection attempts succeed or fail, *)
(* retry timers fire, the connection drops, and store operations           *)
(* (storeUserPosition, getUserPosition and the rest, all run through       *)
(* executeRedisCommand) are invoked at any moment.                         *)
(***************************************************************************)
InitConn ==
    /\ InitCommon
    /\ ConnStarting
    /\ redisInitialized = FALSE
    /\ subscribed = FALSE
    /\ subscriptionRetry = FALSE

NextConn ==
    \/ RedisReady
    \/ InitRedisSucceeds
    \/ InitRedisFails
    \/ RetryFires
    \/ ConnectionLost
    \/ \E c \in CallIds : ExecuteRedisCommand(c)
    \/ \E c \in CallIds : EnsureWaitOver(c)
    \/ \E c \in CallIds : CommandAnswered(c)

SpecConn == InitConn /\ [][NextConn]_vars

\* C21: a store operation invoked while the client is not ready has started
\* a connection attempt by the time it fails, also when another attempt was
\* in flight at its invocation; and no call runs its operation body more
\* than twice.
C21_ReconnectBeforeFailing ==
    \A c \in CallIds :
        /\ calls[c].bodyRuns <= 2
        /\ (calls[c].pc = "failed" /\ calls[c].unready) => calls[c].inits >= 1

\* A call made with no ready client and an attempt in flight has failed.
C21_Witness ==
    \E c \in CallIds :
        calls[c].pc = "failed" /\ calls[c].unready /\ calls[c].bodyRuns = 1

\* C22: the count of consecutive failed connection attempts never exceeds
\* MAX_RECONNECT_ATTEMPTS.
C22_AttemptsWithinCeiling ==
    reconnectAttempts <= MAX_RECONNECT_ATTEMPTS

\* The ceiling has been reached and no attempt is in flight.
C22_Witness ==
    reconnectAttempts >= MAX_RECONNECT_ATTEMPTS /\ ~isConnecting

(***************************************************************************)
(* The server whose store connection is being made when it starts, with    *)
(* the attempt of initRedisConnection and the retries of initRedis free to *)
(* fail or to succeed.                                                     *)
(***************************************************************************)
NextRecover ==
    \/ NextLate
    \/ InitRedisSucceeds
    \/ InitRedisFails
    \/ RetryFires

SpecRecover == InitLate /\ [][NextRecover]_vars

\* The connection handler of socket s comes to its end in this step.
ConnectionHandled(s) ==
    sockets[s].st # "ready" /\ sockets'[s].st = "ready"

\* This step starts a broadcast.
BroadcastStarts ==
    \E k \in DOMAIN tasks' : k.kind = "broadcast" /\ k \notin DOMAIN tasks

\* C23: once the store clients are connected, also by a retry after a
\* failed start-up attempt, an update_location with valid coordinates is
\* stored and a connection handler that ends starts a users_update
\* broadcast (if the registry holds anyone to list).
C23_PresenceBackAfterReconnect ==
    [][\A s \in StoreSockets :
          /\ \A data \in ValidLocations :
                (client = "ready" /\ UpdateLocation(s, {data})) =>
                    /\ Has(geoIndex', UserOf(s))
                    /\ geoIndex'[UserOf(s)] = [longitude |-> data.longitude,
                                               latitude |-> data.latitude]
          /\ (/\ client = "ready"
              /\ ConnectionHandled(s)
              /\ activeConnections # EmptyMap) => BroadcastStarts]_vars

\* The start-up attempt failed, a retry has connected the clients, and a
\* client connected since then has sent update_location.
C23_Witness ==
    /\ client = "ready"
    /\ ~redisInitialized
    /\ updates > 0
    /\ \E s \in StoreSockets : sockets[s].st = "ready"

(***************************************************************************)
(* The server with the store connected and initialised, whose store        *)
(* connection may drop (between commands) and does not come back: clients  *)
(* connect before and after the drop, reconnection attempts fail or stay   *)
(* unanswered, retry timers fire.  The store's replies, the second of      *)
(* ensureRedisConnection and the retry timers come in the end; nothing     *)
(* makes an unreachable store answer a connection attempt.                 *)
(***************************************************************************)
StoreDrops ==
    /\ mainQueue = <<>>
    /\ pubQueue = <<>>
    /\ ConnectionLost

NextDegraded ==
    \/ StoreDrops
    \/ \E s \in StoreSockets : Connect(s, GoodHandshakes)
    \/ \E s \in StoreSockets : ConnectionResume(s)
    \/ \E s \in StoreSockets : StoreDetailsThrows(s)
    \/ \E k \in DOMAIN tasks : BroadcastStep(k)
    \/ \E k \in DOMAIN tasks : BroadcastThrows(k)
    \/ InitRedisFails
    \/ RetryFires

FairnessDegraded ==
    /\ WF_vars(\E s \in StoreSockets : ConnectionResume(s))
    /\ WF_vars(\E s \in StoreSockets : StoreDetailsThrows(s))
    /\ WF_vars(\E k \in DOMAIN tasks : BroadcastStep(k))
    /\ WF_vars(\E k \in DOMAIN tasks : BroadcastThrows(k))
    /\ WF_vars(RetryFires)

FairSpecDegraded == InitStore /\ [][NextDegraded]_vars /\ FairnessDegraded

\* C24: with the store unavailable or its calls failing, every client whose
\* connection is registered gets the authenticated acknowledgment and has
\* its event handlers installed.
C24_ConnectionHandledWithoutStore ==
    \A s \in StoreSockets :
        (sockets[s].st = "awaiting") ~> (sockets[s].st = "ready")

\* A client has connected after the store connection dropped; it is
\* registered and its connection handler awaits storeUserDetails.
C24_Witness ==
    \E s \in StoreSockets :
        /\ sockets[s].st = "awaiting"
        /\ Registered(s)
        /\ client # "ready"
        /\ initCaller = Caller("connection", s)

(***************************************************************************)
(* The store module with its subscription: as SpecConn, and the callback   *)
(* is subscribed and unsubscribed and notifications are published at any   *)
(* moment at which the clients are ready.                                  *)
(***************************************************************************)
NextSub ==
    \/ NextConn
    \/ SubscribeToUserUpdates
    \/ Unsubscribe
    \/ \E type \in NotificationTypes : PublishNotification(type)

SpecSub == InitConn /\ [][NextSub]_vars

\* C25: every notification published while a subscription is in force
\* (after subscribe succeeded, before its handle is called) is delivered
\* to the callback, also after initRedis has stored new clients.
C25_NotificationsDelivered ==
    \A i \in DOMAIN notes : notes[i].inForce => notes[i].delivered

\* A notification was delivered to the callback, and the clients have been
\* stored anew since the callback was subscribed.
C25_Witness ==
    /\ \E i \in DOMAIN notes : notes[i].inForce /\ notes[i].delivered
    /\ subscribed
    /\ client = "ready"
    /\ subscribedGen # clientGen

(***************************************************************************)
(* removeUserPosition (userService.js:759-783) as the disconnect and the   *)
(* stop_location_sharing handlers call it: ZREM, DEL, PUBLISH.  It         *)
(* completes when PUBLISH is answered.                                     *)
(***************************************************************************)
RemovalTasks == {k \in DOMAIN tasks : k.kind \in {"disconnect", "stop"}}

RemovalRunning(k) == k \in RemovalTasks /\ tasks[k].pc \in {"zrem", "del", "publish"}

RemovePositionCompletes(k) ==
    /\ k \in RemovalTasks
    /\ tasks[k].pc = "publish"
    /\ (k \in DOMAIN tasks' => tasks'[k].pc # "publish")

\* storeUserPosition calls for the user that have not completed.
StoresInFlight(u) ==
    {k \in DOMAIN tasks : k.kind = "update" /\ tasks[k].userId = u}

\* What getUserPosition (userService.js:639-667) answers from the given
\* keys and index: the key's value, else the index's member, else nothing.
getUserPosition(keys, geo, u) ==
    IF Has(keys, u) THEN <<keys[u].value>>
    ELSE IF Has(geo, u) THEN <<geo[u]>> ELSE <<>>

\* How many PUBLISH commands of the task await their reply.
PublishesOf(k) == Cardinality({i \in DOMAIN pubQueue : pubQueue[i] = k})

\* C26: when removeUserPosition(u) completes and no storeUserPosition for u
\* is in flight, u has neither index member nor position key, so that
\* getUserPosition(u) answers nothing; the call has published one removal
\* notification for u, no more; and it has left u's details as they were.
C26_RemovalComplete ==
    [][\A k \in RemovalTasks :
          LET u == tasks[k].userId
          IN  /\ (RemovePositionCompletes(k) /\ StoresInFlight(u) = {}) =>
                    /\ ~Has(geoIndex', u)
                    /\ ~Has(positionKeys', u)
                    /\ getUserPosition(positionKeys', geoIndex', u) = <<>>
              /\ PublishesOf(k) = (IF tasks[k].pc = "publish" THEN 1 ELSE 0)
              /\ (tasks[k].pc = "del" /\ k \in DOMAIN tasks'
                     /\ tasks'[k].pc = "publish") =>
                    /\ pubQueue' = Append(pubQueue, k)
                    /\ subscribed =>
                          subQueue' = Append(subQueue,
                                             [userId |-> u, type |-> "removal"])
              /\ (RemovalRunning(k) /\ k \in DOMAIN tasks'
                     /\ tasks'[k].pc # tasks[k].pc
                     /\ tasks'[k].pc \in {"del", "publish"}) =>
                    userDetails' = userDetails]_vars

\* A removal for a user who had a member, a key and details has completed
\* with no store for the user in flight, and its notification awaits the
\* subscriber.
C26_Witness ==
    \E s \in StoreSockets :
       /\ Has(tasks, TaskKey("disconnect", s, 0))
       /\ tasks[TaskKey("disconnect", s, 0)].pc = "hset"
       /\ StoresInFlight(UserOf(s)) = {}
       /\ Has(userDetails, UserOf(s))
       /\ "lastUpdate" \in userDetails[UserOf(s)]
       /\ \E i \in DOMAIN subQueue :
             subQueue[i] = [userId |-> UserOf(s), type |-> "removal"]

\* The connections of the user whose transport is connected and which have
\* sent an update_location that was stored.
LocatedConnections(u) ==
    {s \in SocketIds : UserOf(s) = u /\ sockets[s].open /\ sockets[s].located}

\* The connection of the user that is registered now was the registered one
\* when the broadcast started.
RegisteredSince(k, u) ==
    /\ Has(activeConnections, u)
    /\ Has(tasks[k].conns, u)
    /\ tasks[k].conns[u] = activeConnections[u]

\* C27: a users_update whose broadcast started with the user's present
\* connection registered lists the user with a location only if an
\* update_location of a connection of the user that is still open has been
\* stored: a user who has connected again and has sent none since is not
\* listed, whatever earlier connections of the user have left in the store.
C27_LocationFromCurrentConnection ==
    [][\A k \in DOMAIN tasks :
          Emits(k) =>
              \A u \in Listed(usersUpdates'[1]) :
                 RegisteredSince(k, u) => LocatedConnections(u) # {}]_vars

\* A broadcast that started after the user connected again has read a
\* position for the user, whose only connection that sent update_location
\* is closed.
C27_Witness ==
    \E k \in DOMAIN tasks : \E u \in Users :
       /\ k.kind = "broadcast"
       /\ RegisteredSince(k, u)
       /\ tasks[k].chains[u].pos # <<>>
       /\ ~sockets[activeConnections[u]].located
       /\ LocatedConnections(u) = {}
       /\ \E s \in SocketIds :
             UserOf(s) = u /\ sockets[s].located /\ sockets[s].st = "closed"

(***************************************************************************)
(* The messaging server of Spec with clients that may use a messageId      *)
(* again: finalMessageId is whatever the payload carries (socketManager.js *)
(* 417-418), and pendingMessages.set replaces the entry under a key that   *)
(* is already there (line 452).                                            *)
(***************************************************************************)
NumberRecipients == {JsNumber(u) : u \in Users}

ReuseSockets == 1..MaxReuseSockets

ReuseTexts == {JsString(<<"a">>), JsString(<<"b">>)}

NextReuse ==
    \/ \E s \in ReuseSockets : Connect(s, GoodHandshakes)
    \/ \E s \in ReuseSockets :
          SendMessage(s, Payloads(NumberRecipients, ReuseTexts, ClientMessageIds),
                      FreshGeneratedIds)
    \/ \E s \in ReuseSockets : OnDisconnect(s)
    \/ \E i \in 1..MaxSends : RetryFire(i)
    \/ Sweep
    \/ ClockTick

SpecReuse == Init /\ [][NextReuse]_vars

\* Call fired + 1 of timer entry i runs.
Fires(i) ==
    /\ i \in DOMAIN timers
    /\ TimerDue(timers[i]) <= now
    /\ timers' = AfterFiring(timers, i)

\* The pending entries that are the message timer entry i was set for: the
\* entry made by the send that set the timers.
OwnEntries(i) ==
    {j \in DOMAIN pendingMessages :
        /\ pendingMessages[j].messageId = timers[i].messageId
        /\ pendingMessages[j].recipientId = timers[i].targetId
        /\ pendingMessages[j].timestamp = timers[i].base}

\* C28: a firing whose message is no longer pending emits nothing and
\* changes nothing; a firing whose message is pending delivers it to the
\* registered handle of its recipient, tells the sender if registered and
\* removes the entry when the recipient is in the registry, and changes
\* nothing when the recipient is not.
C28_FiringRevalidates ==
    [][\A i \in DOMAIN timers :
          Fires(i) =>
             /\ UNCHANGED <<sockets, activeConnections, activeChatSessions>>
             /\ IF OwnEntries(i) = {}
                THEN UNCHANGED <<emitted, pendingMessages>>
                ELSE LET d == pendingMessages[CHOOSE j \in OwnEntries(i) : TRUE]
                     IN  IF Has(activeConnections, d.recipientId)
                         THEN /\ pendingMessages' =
                                    PendingDelete(pendingMessages, d.messageId)
                              /\ emitted' = emitted
                                    \o <<NewMessage(activeConnections[d.recipientId],
                                                    d, "delivered")>>
                                    \o (IF Has(activeConnections, d.senderId)
                                        THEN <<MessageStatus(
                                                  activeConnections[d.senderId],
                                                  d.messageId, "delivered")>>
                                        ELSE <<>>)
                         ELSE UNCHANGED <<emitted, pendingMessages>>]_vars

\* A new_message has been emitted to a socket of a user other than the
\* message's recipient, and the entry is gone: a firing found the id of its
\* message in the table again.
C28_Witness ==
    \E n \in DOMAIN emitted :
       /\ emitted[n].event = "new_message"
       /\ emitted[n].to # NoSocket
       /\ UserOf(emitted[n].to) # emitted[n].recipientId
       /\ ~PendingHas(pendingMessages, emitted[n].messageId)

\* The callback of the sweep's interval runs.
Sweeps == nextSweep <= now /\ nextSweep' = nextSweep + SWEEP_INTERVAL /\ now' = now

Expired(d) == now > d.expiresAt

\* The events a step emits.
NewEvents == SubSeq(emitted', Len(emitted) + 1, Len(emitted'))

FailedEvents(events) ==
    SelectSeq(events, LAMBDA e : e.event = "message_status" /\ e.status = "failed")

\* C29: a sweep deletes the entries whose expiresAt the clock has passed,
\* whether or not their sender is registered, and leaves the others as they
\* are; it emits 'failed' once for every entry it deletes whose sender is
\* in the registry, to the registered handle, and nothing else; and no
\* other step emits 'failed'.
C29_SweepDeletesExpired ==
    [][/\ Sweeps =>
             /\ pendingMessages' = SelectSeq(pendingMessages, LAMBDA d : ~Expired(d))
             /\ LET told == SelectSeq(pendingMessages,
                               LAMBDA d : Expired(d) /\ Has(activeConnections, d.senderId))
                IN  /\ Len(NewEvents) = Len(told)
                    /\ \A n \in DOMAIN told :
                          NewEvents[n] = MessageStatus(activeConnections[told[n].senderId],
                                                       told[n].messageId, "failed")
       /\ ~Sweeps => FailedEvents(NewEvents) = <<>>]_vars

\* Sweeps have deleted an expired entry whose sender was registered, who
\* was told 'failed', and one whose sender was not, of which nobody was
\* told anything.
C29_Witness ==
    /\ pendingMessages = <<>>
    /\ \E n \in DOMAIN emitted :
          emitted[n].event = "message_status" /\ emitted[n].status = "failed"
    /\ \E i \in DOMAIN sends :
          /\ sends[i].class = "offline"
          /\ \A n \in DOMAIN emitted :
                emitted[n].messageId = sends[i].messageId =>
                   emitted[n].status = "pending"

\* A send_message is handled that queues its message.
OfflineSend ==
    /\ Len(sends') = Len(sends) + 1
    /\ sends'[Len(sends')].class = "offline"

\* C30: a send that queues its message sets one series of retryCount calls
\* of attemptDelivery and other sends set none; call n of a series runs
\* RETRY_INTERVAL * n after the send, once; and when call retryCount has run
\* nothing of the series is left, so that no further call runs.
C30_TenAttemptsPerSend ==
    [][/\ \A i \in DOMAIN timers : timers[i].fired \in 0..(retryCount - 1)
       /\ OfflineSend =>
             timers' = Append(timers,
                              [messageId |-> sends'[Len(sends')].messageId,
                               targetId |-> sends'[Len(sends')].targetId,
                               base |-> now, fired |-> 0])
       /\ \A i \in DOMAIN timers :
             Fires(i) =>
                /\ now = timers[i].base + (timers[i].fired + 1) * RETRY_INTERVAL
                /\ IF timers[i].fired + 1 = retryCount
                   THEN Len(timers') = Len(timers) - 1
                   ELSE /\ Len(timers') = Len(timers)
                        /\ timers'[i] = [timers[i] EXCEPT !.fired = @ + 1]
       /\ timers' # timers => (OfflineSend \/ \E i \in DOMAIN timers : Fires(i))]_vars

\* The ten calls set by a send that queued its message have all run, the
\* last of them MESSAGE_EXPIRY after the send; none is left.
C30_Witness ==
    /\ timers = <<>>
    /\ \E i \in DOMAIN sends : sends[i].class = "offline"
    /\ \E n \in DOMAIN emitted :
          emitted[n].event = "message_status" /\ emitted[n].status = "failed"

(***************************************************************************)
(* The server with the store on and clients that report different          *)
(* positions, of one user from several connections too, so that            *)
(* storeUserPosition calls for a user overlap.  Nobody disconnects.        *)
(***************************************************************************)
SeveralLocations ==
    [present : {TRUE}, latitude : 1..MaxLatitude, longitude : {1}]

NextPositions ==
    \/ \E s \in StoreSockets : Connect(s, GoodHandshakes)
    \/ \E s \in StoreSockets : ConnectionResume(s)
    \/ \E s \in StoreSockets : UpdateLocation(s, SeveralLocations)
    \/ \E k \in DOMAIN tasks : UpdateLocationStep(k)
    \/ \E k \in DOMAIN tasks : BroadcastStep(k)
    \/ OnUserUpdate
    \/ \E u \in Users : KeyExpires(u)

SpecPositions == InitStore /\ [][NextPositions]_vars

\* storeUserPosition calls for the user that have not completed: PUBLISH
\* is their last command.
PositionStores(u) ==
    {k \in StoresInFlight(u) : tasks[k].pc \in {"geoadd", "set", "expire", "publish"}}

\* The storeUserPosition call of the task completes.
StorePositionCompletes(k) ==
    /\ k \in DOMAIN tasks
    /\ k.kind = "update"
    /\ tasks[k].pc = "publish"
    /\ k \in DOMAIN tasks'
    /\ tasks'[k].pc = "hset"

\* C31: when the last storeUserPosition call in flight for a user
\* completes, the user's member of the index holds the coordinates of that
\* call and so does the position key, if it has not expired: the call that
\* began last wins both, and a call that repeats the stored coordinates
\* leaves them as they are.
C31_LastWriteWins ==
    [][\A k \in DOMAIN tasks :
          LET u == tasks[k].userId
          IN  (StorePositionCompletes(k) /\ PositionStores(u) = {k}) =>
                 /\ Has(geoIndex', u)
                 /\ geoIndex'[u] = tasks[k].pos[1]
                 /\ Has(positionKeys', u) => positionKeys'[u].value = tasks[k].pos[1]]_vars

\* Two storeUserPosition calls of one user with different coordinates, the
\* second begun before the first had completed, have both completed (their
\* handlers wait for HSET), and index and key hold the same position.
C31_Witness ==
    \E u \in Users : \E k1, k2 \in StoresInFlight(u) :
       /\ PositionStores(u) = {}
       /\ tasks[k1].pos # tasks[k2].pos
       /\ Has(geoIndex, u)
       /\ Has(positionKeys, u)
       /\ positionKeys[u].value = geoIndex[u]
       /\ geoIndex[u] = tasks[k2].pos[1]

\* A send_message queues its message under a messageId that is in the
\* pending table.
CollidingSend ==
    /\ OfflineSend
    /\ PendingHas(pendingMessages, sends'[Len(sends')].messageId)

\* The new_message events that carry the entry's id and body to a socket of
\* the entry's recipient.
DeliveriesOf(d) ==
    {n \in DOMAIN emitted :
        /\ emitted[n].event = "new_message"
        /\ emitted[n].messageId = d.messageId
        /\ emitted[n].message = d.message
        /\ emitted[n].recipientId = d.recipientId}

\* C32: a send that queues its message under a messageId already in the
\* pending table puts its entry in the place of the earlier one; the table
\* never holds two entries of one messageId; and the body of the replaced
\* message is never delivered to its recipient.
C32_CollisionReplaces ==
    [][/\ \A i, j \in DOMAIN pendingMessages :
             pendingMessages[i].messageId = pendingMessages[j].messageId => i = j
       /\ CollidingSend =>
             LET new == sends'[Len(sends')].replaced[2]
             IN  /\ Len(pendingMessages') = Len(pendingMessages)
                 /\ \A i \in DOMAIN pendingMessages :
                       pendingMessages'[i] =
                          IF pendingMessages[i].messageId = new.messageId
                          THEN new ELSE pendingMessages[i]
       /\ \A i \in DOMAIN sends :
             (/\ sends[i].replaced # <<>>
              /\ sends[i].replaced[1].message # sends[i].replaced[2].message
              /\ Cardinality({j \in DOMAIN sends :
                                 sends[j].messageId = sends[i].messageId}) = 2)
                => DeliveriesOf(sends[i].replaced[1]) = {}]_vars

\* A message with body "b" has taken the place of a pending message of the
\* same messageId with body "a" and has been delivered to its recipient.
C32_Witness ==
    \E i \in DOMAIN sends :
       /\ sends[i].replaced # <<>>
       /\ sends[i].replaced[1].message # sends[i].replaced[2].message
       /\ sends[i].replaced[1].recipientId = sends[i].replaced[2].recipientId
       /\ DeliveriesOf(sends[i].replaced[2]) # {}
       /\ pendingMessages = <<>>

\* C33: between handler runs no message is pending whose recipient is a
\* key of the registry.
C33_NoPendingForRegistered ==
    \A i \in DOMAIN pendingMessages :
       ~Has(activeConnections, pendingMessages[i].recipientId)

\* A user for whom a message was queued is registered and has been handed
\* the message on the registered handle, while another message is pending.
C33_Witness ==
    \E u \in Users :
       /\ Has(activeConnections, u)
       /\ \E i \in DOMAIN sends :
             /\ sends[i].class = "offline"
             /\ sends[i].targetId = u
             /\ ~PendingHas(pendingMessages, sends[i].messageId)
             /\ \E n \in DOMAIN emitted :
                   /\ emitted[n].event = "new_message"
                   /\ emitted[n].messageId = sends[i].messageId
                   /\ emitted[n].to = activeConnections[u]
       /\ pendingMessages # <<>>

\* Where in the events emitted so far the new_message events of the
\* message id are.
EmissionsOf(id) ==
    {n \in DOMAIN emitted :
        emitted[n].event = "new_message" /\ emitted[n].messageId = id}

\* Two accepted sends of one sender to one recipient, in the order handled.
SamePair(i, j) ==
    /\ i < j
    /\ sends[i].senderId = sends[j].senderId
    /\ sends[i].targetId = sends[j].targetId
    /\ sends[i].class \in {"online", "offline"}
    /\ sends[j].class \in {"online", "offline"}

\* C34: of two messages of one sender to one recipient, the one whose
\* send_message was handled first is emitted to the recipient first; a
\* queued message is no longer pending when a later message of the pair
\* takes the online path.
C34_PairOrder ==
    \A i, j \in DOMAIN sends :
       SamePair(i, j) =>
          /\ \A n \in EmissionsOf(sends[i].messageId) :
                \A m \in EmissionsOf(sends[j].messageId) : n < m
          /\ (sends[i].class = "offline" /\ sends[j].class = "online") =>
                ~PendingHas(pendingMessages, sends[i].messageId)

\* Two messages of one sender were queued for one recipient and both have
\* been emitted to the recipient.
C34_Witness ==
    \E i, j \in DOMAIN sends :
       /\ SamePair(i, j)
       /\ sends[i].class = "offline"
       /\ sends[j].class = "offline"
       /\ EmissionsOf(sends[i].messageId) # {}
       /\ EmissionsOf(sends[j].messageId) # {}

\* C35: a user with an open connection whose connection handler has run
\* is a key of the registry, mapped to an open connection of that user,
\* also after an earlier connection of the user has disconnected.
C35_OpenUsersRegistered ==
    \A s \in SocketIds :
       (sockets[s].st = "ready" /\ sockets[s].open) =>
          /\ Has(activeConnections, UserOf(s))
          /\ sockets[activeConnections[UserOf(s)]].open
          /\ UserOf(activeConnections[UserOf(s)]) = UserOf(s)

\* A user's second connection is open and served, the first has been
\* through its disconnect handler, and the user is not in the registry.
C35_Witness ==
    \E s1, s2 \in SocketIds :
       /\ s1 < s2
       /\ UserOf(s1) = UserOf(s2)
       /\ sockets[s1].st = "closed"
       /\ sockets[s2].st = "ready"
       /\ sockets[s2].open
       /\ ~Has(activeConnections, UserOf(s2))

(***************************************************************************)
(* The server with the store on and clients that connect, may lose their   *)
(* transport while the connection handler waits for the store, and send    *)
(* messages.                                                               *)
(***************************************************************************)
NextStoreChat ==
    \/ \E s \in StoreSockets : Connect(s, GoodHandshakes)
    \/ \E s \in StoreSockets : ConnectionResume(s)
    \/ \E s \in StoreSockets : TransportClose(s)
    \/ \E s \in StoreSockets :
          SendMessage(s, Payloads(UserRecipients, TextMessages, FreshClientIds),
                      FreshGeneratedIds)
    \/ \E s \in StoreSockets : OnDisconnect(s)
    \/ \E k \in DOMAIN tasks : DisconnectStep(k)
    \/ \E k \in DOMAIN tasks : BroadcastStep(k)

SpecStoreChat == InitStore /\ [][NextStoreChat]_vars

\* C36: a message_status 'delivered' is emitted only after a new_message
\* with its messageId has been emitted, in the same handler run, to a
\* connection of the recipient whose transport is open.
C36_DeliveredMeansReceived ==
    [][\A n \in DOMAIN NewEvents :
          (NewEvents[n].event = "message_status" /\ NewEvents[n].status = "delivered") =>
             \E m \in 1..(n - 1) :
                /\ NewEvents[m].event = "new_message"
                /\ NewEvents[m].messageId = NewEvents[n].messageId
                /\ NewEvents[m].to # NoSocket
                /\ sockets'[NewEvents[m].to].userId = NewEvents[m].recipientId
                /\ sockets'[NewEvents[m].to].open]_vars

\* The sender of a message has been told 'delivered' and the only
\* new_message of the message went to a connection whose transport had
\* closed while its connection handler waited for the store.
C36_Witness ==
    \E i \in DOMAIN sends :
       /\ sends[i].class = "online"
       /\ ~sockets[sends[i].recipientSocket].open
       /\ sockets[sends[i].recipientSocket].st # "closed"
       /\ StatusNames(emitted, sends[i].messageId) = <<"delivered">>
       /\ \A n \in EmissionsOf(sends[i].messageId) :
             emitted[n].to = sends[i].recipientSocket

\* The user has no connection whose transport is open.
Gone(u) == \A s \in SocketIds : UserOf(s) = u => ~sockets[s].open

\* C37: a disconnect leaves the pending table as it is, whoever sent the
\* entries and whomever they are for, and emits nothing; when a user
\* connects, every entry for the user is emitted to the new connection and
\* removed, also when its sender has no connection any more, and for such
\* an entry no message_status is emitted.
C37_DisconnectKeepsPending ==
    [][/\ \A s \in SocketIds :
             Disconnects(s) =>
                /\ pendingMessages' = pendingMessages
                /\ NewEvents = <<>>
       /\ \A s \in SocketIds, u \in Users :
             Connects(s, u) =>
                \A i \in DOMAIN pendingMessages :
                   LET d == pendingMessages[i]
                   IN  d.recipientId = u =>
                          /\ ~PendingHas(pendingMessages', d.messageId)
                          /\ \E n \in DOMAIN NewEvents :
                                NewEvents[n] = NewMessage(s, d, "delivered")
                          /\ Gone(d.senderId) =>
                                \A n \in DOMAIN NewEvents :
                                   NewEvents[n].messageId = d.messageId =>
                                      NewEvents[n].event = "new_message"]_vars

\* A message whose sender has disconnected, and has no connection, has
\* been emitted to its recipient on connect; no status but 'pending' was
\* ever emitted for it.
C37_Witness ==
    \E i \in DOMAIN sends :
       /\ sends[i].class = "offline"
       /\ sockets[sends[i].socket].st = "closed"
       /\ Gone(sends[i].senderId)
       /\ EmissionsOf(sends[i].messageId) # {}
       /\ StatusNames(emitted, sends[i].messageId) = <<"pending">>

\* C38: the deliverPendingMessages(u) call of a connection handler emits
\* one new_message for every entry whose recipientId is u and for no
\* other, removes these entries, returns their number, and leaves the
\* entries for other recipients in the table as they are.
C38_DeliversExactlyOwn ==
    [][\A s \in SocketIds, u \in Users :
          Connects(s, u) =>
             LET res == deliverPendingMessages(pendingMessages, activeConnections', u)
                 mine == {i \in DOMAIN pendingMessages :
                             pendingMessages[i].recipientId = u}
             IN  /\ pendingMessages' = res.pending
                 /\ NewEvents = res.events
                 /\ res.pending = SelectSeq(pendingMessages,
                                            LAMBDA d : d.recipientId # u)
                 /\ res.delivered = Cardinality(mine)
                 /\ \A i \in mine :
                       Cardinality({n \in DOMAIN res.events :
                                       res.events[n] =
                                          NewMessage(s, pendingMessages[i],
                                                     "delivered")}) = 1
                 /\ \A n \in DOMAIN res.events :
                       res.events[n].event = "new_message" =>
                          \E i \in mine :
                             res.events[n].messageId = pendingMessages[i].messageId]_vars

\* Two messages queued for one user have been emitted to the user's
\* connection, each once, and nothing is pending.
C38_Witness ==
    \E i, j \in DOMAIN sends :
       /\ i < j
       /\ sends[i].class = "offline"
       /\ sends[j].class = "offline"
       /\ sends[i].targetId = sends[j].targetId
       /\ Cardinality(EmissionsOf(sends[i].messageId)) = 1
       /\ Cardinality(EmissionsOf(sends[j].messageId)) = 1
       /\ \A n \in EmissionsOf(sends[i].messageId) :
             \A m \in EmissionsOf(sends[j].messageId) :
                emitted[n].to = emitted[m].to
       /\ pendingMessages = <<>>

\* An initRedis call in flight comes to its end in this step: it returns
\* (userService.js:545-550) or throws (lines 551-567).
AttemptEnds == isConnecting /\ initCaller' # initCaller

\* C39: at most one initRedis attempt is in flight at any time: an attempt
\* is in flight exactly while isConnecting is true, no step taken while
\* isConnecting is true begins another (the attempts are not counted up,
\* the stored clients are not quit, the awaited attempt stays the same
\* one), and a step that ends an attempt, by success or by failure,
\* leaves isConnecting false.
C39_OneAttemptInFlight ==
    [][/\ isConnecting <=> initCaller # NoCaller
       /\ isConnecting' <=> initCaller' # NoCaller
       /\ isConnecting =>
             /\ reconnectAttempts' \in {reconnectAttempts, 0}
             /\ initCaller' \in {initCaller, NoCaller}
             /\ client' = "closed" => client = "closed"
       /\ AttemptEnds => ~isConnecting'
       /\ clientGen' # clientGen => isConnecting /\ ~isConnecting']_vars

\* A store operation whose command met closed clients has called initRedis
\* with an attempt in flight: the call came back at once, the operation
\* ran again, and the attempt is still the one in flight.
C39_Witness ==
    \E c \in CallIds :
       /\ calls[c].bodyRuns = 2
       /\ calls[c].inits = 0
       /\ isConnecting

=============================================================================
